---- MODULE Spec2Model ----
(***************************************************************************)
(* A model of the document compilation pipeline of the backend:            *)
(*   backend/markdown_utils.py  (MarkdownParser, get_markdown_parser)      *)
(*   backend/pdf_generator.py   (PDFGenerator)                             *)
(*                                                                         *)
(* Text is modelled at character level: a Python str is a sequence of      *)
(* one-character strings, "\n" being the line break.  The layout library   *)
(* (Paragraph, Spacer, Table, Image, PageBreak, SimpleDocTemplate) is an   *)
(* external collaborator: its flowables are records holding what the code  *)
(* passes to their constructors.                                           *)
(***************************************************************************)
EXTENDS Integers, Sequences, FiniteSets, TLC

(***************************************************************************)
(* Python str primitives                                                   *)
(***************************************************************************)
NL == "\n"

\* The backtick, which a TLA+ string literal cannot hold: a value of its own that
\* differs from every one-character string.
BT == "BT"

\* The bullet markers U+2022 and U+25E6, which are no ASCII characters
BULLET == "U+2022"

HOLLOW == "U+25E6"

\* The characters str.strip() removes and the regex class \s matches.
Whitespace == {" ", NL, "\t"}

SetMin(S) == CHOOSE x \in S : \A y \in S : x <= y

SetMax(S) == CHOOSE x \in S : \A y \in S : x >= y

\* s[i:]  (1-based i)
From(s, i) == SubSeq(s, i, Len(s))

\* s[:n]
Take(s, n) == SubSeq(s, 1, IF n < Len(s) THEN n ELSE Len(s))

MatchAt(s, p, i) == i >= 1 /\ i + Len(p) - 1 <= Len(s) /\ SubSeq(s, i, i + Len(p) - 1) = p

\* s.find(p, i): the least index >= i where p occurs in s, 0 when there is none.
FindFrom(s, p, i) ==
    LET C == {j \in i..(Len(s) - Len(p) + 1) : MatchAt(s, p, j)}
    IN  IF C = {} THEN 0 ELSE SetMin(C)

\* p in s
Contains(s, p) == FindFrom(s, p, 1) # 0

StartsWith(s, p) == MatchAt(s, p, 1)

EndsWith(s, p) == Len(s) >= Len(p) /\ SubSeq(s, Len(s) - Len(p) + 1, Len(s)) = p

\* s.strip()
Strip(s) ==
    LET I == {i \in 1..Len(s) : s[i] \notin Whitespace}
    IN  IF I = {} THEN <<>> ELSE SubSeq(s, SetMin(I), SetMax(I))

\* s.strip(c) for one character c
StripChar(s, c) ==
    LET I == {i \in 1..Len(s) : s[i] # c}
    IN  IF I = {} THEN <<>> ELSE SubSeq(s, SetMin(I), SetMax(I))

\* s.split(sep) for a non-empty separator
RECURSIVE Split(_, _)
Split(s, sep) ==
    LET j == FindFrom(s, sep, 1)
    IN  IF j = 0 THEN <<s>>
        ELSE <<SubSeq(s, 1, j - 1)>> \o Split(From(s, j + Len(sep)), sep)

\* sep.join(parts)
RECURSIVE Join(_, _)
Join(parts, sep) ==
    IF parts = <<>> THEN <<>>
    ELSE IF Len(parts) = 1 THEN parts[1]
    ELSE parts[1] \o sep \o Join(Tail(parts), sep)

\* s.replace(old, new, 1)
ReplaceFirst(s, old, new) ==
    LET j == FindFrom(s, old, 1)
    IN  IF j = 0 THEN s
        ELSE SubSeq(s, 1, j - 1) \o new \o From(s, j + Len(old))

UpperCase == <<"A","B","C","D","E","F","G","H","I","J","K","L","M",
               "N","O","P","Q","R","S","T","U","V","W","X","Y","Z">>

LowerCase == <<"a","b","c","d","e","f","g","h","i","j","k","l","m",
               "n","o","p","q","r","s","t","u","v","w","x","y","z">>

Digits == {"0","1","2","3","4","5","6","7","8","9"}

LowerChar(c) ==
    IF \E k \in 1..26 : UpperCase[k] = c
    THEN LowerCase[CHOOSE k \in 1..26 : UpperCase[k] = c]
    ELSE c

\* s.lower()
Lower(s) == [i \in 1..Len(s) |-> LowerChar(s[i])]

\* str(n) for a natural number n
RECURSIVE Str(_)
Str(n) ==
    LET d == <<"0","1","2","3","4","5","6","7","8","9">>
    IN  IF n < 10 THEN <<d[n + 1]>> ELSE Str(n \div 10) \o <<d[(n % 10) + 1]>>

\* c * n
Repeat(c, n) == [i \in 1..n |-> c]

(***************************************************************************)
(* re.sub(r'<open>(.*?)<close>', r'<pre>\1<post>', line) on one line, and  *)
(* the variant with (.+?): the scan is left to right, each match takes the *)
(* nearest closing delimiter, and the search resumes after the match.      *)
(* minLen is 0 for (.*?) and 1 for (.+?).                                  *)
(***************************************************************************)
RECURSIVE SubDelimited(_, _, _, _, _, _)
SubDelimited(s, open, close, minLen, pre, post) ==
    LET match(p, q) ==
            IF p = 0 \/ q = 0 THEN s
            ELSE SubSeq(s, 1, p - 1) \o pre \o SubSeq(s, p + Len(open), q - 1) \o post
                 \o SubDelimited(From(s, q + Len(close)), open, close, minLen, pre, post)
        opened(p) ==
            match(p, IF p = 0 THEN 0 ELSE FindFrom(s, close, p + Len(open) + minLen))
    IN  opened(FindFrom(s, open, 1))

(***************************************************************************)
(* MarkdownParser (markdown_utils.py)                                      *)
(***************************************************************************)

\* _create_heading_id: lower, drop what is not [a-z0-9\s-], whitespace runs
\* to one hyphen, hyphen runs to one hyphen, strip hyphens, or 'heading'.
SlugKeep(c) == (\E k \in 1..26 : LowerCase[k] = c) \/ c \in Digits \/ c \in Whitespace \/ c = "-"

RECURSIVE CollapseRuns(_, _, _)
\* re.sub(r'<class>+', with, s): every maximal run of characters of cls becomes `with`
CollapseRuns(s, cls, with) ==
    IF s = <<>> THEN <<>>
    ELSE IF s[1] \in cls
         THEN LET I == {i \in 1..Len(s) : s[i] \notin cls}
                  n == IF I = {} THEN Len(s) + 1 ELSE SetMin(I)
              IN  with \o CollapseRuns(From(s, n), cls, with)
         ELSE <<s[1]>> \o CollapseRuns(Tail(s), cls, with)

\* A variant of _create_heading_id that leaves the hyphens at the ends
SlugNoStrip(title) ==
    LET one == CollapseRuns(CollapseRuns(SelectSeq(Lower(title), SlugKeep),
                                         Whitespace, <<"-">>), {"-"}, <<"-">>)
    IN  IF one = <<>> THEN <<"h","e","a","d","i","n","g">> ELSE one

_create_heading_id(title) ==
    LET low  == Lower(title)
        kept == SelectSeq(low, SlugKeep)
        hyph == CollapseRuns(kept, Whitespace, <<"-">>)
        one  == CollapseRuns(hyph, {"-"}, <<"-">>)
        id   == StripChar(one, "-")
    IN  IF id = <<>> THEN <<"h","e","a","d","i","n","g">> ELSE id

\* The end of the line that holds position t: the last index before the next "\n".
LineEnd(s, t) ==
    LET j == FindFrom(s, <<NL>>, t)
    IN  IF j = 0 THEN Len(s) ELSE j - 1

\* The length of the run of characters of cls that starts at s[i]
RunLength(s, i, cls) ==
    SetMin({j \in i..(Len(s) + 1) : j > Len(s) \/ s[j] \notin cls}) - i

\* One attempt of heading_pattern = ^(#{1,6})\s+(.+)$ at the line start p:
\* <<level, t, e>> with the title at s[t..e], or <<0, 0, 0>> when it does not match.
\* \s+ may run over line breaks; (.+) needs one character that is not "\n".
HeadingMatchAt(s, p) ==
    LET title(h, t) == IF t = 0 THEN <<0, 0, 0>> ELSE <<h, t, LineEnd(s, t)>>
        space(h, a, w) ==
            IF h < 1 \/ h > 6 \/ w < 1 THEN <<0, 0, 0>>
            ELSE title(h, SetMax({0} \cup {t \in (a + 1)..(a + w) : t <= Len(s) /\ s[t] # NL}))
        hashes(h) == space(h, p + h, RunLength(s, p + h, Whitespace))
    IN  hashes(RunLength(s, p, {"#"}))

\* extract_headings: finditer over the line starts, left to right, a match
\* consuming the text up to its end.
RECURSIVE HeadingsFrom(_, _)
HeadingsFrom(s, p) ==
    LET heading(level, title) ==
            [level |-> level, title |-> title, id |-> _create_heading_id(title),
             position |-> p - 1]
        resume(m, nl) ==
            (IF m[1] = 0 THEN <<>> ELSE <<heading(m[1], Strip(SubSeq(s, m[2], m[3])))>>)
            \o HeadingsFrom(s, IF nl = 0 THEN Len(s) + 1 ELSE nl + 1)
        attempt(m) == resume(m, FindFrom(s, <<NL>>, IF m[1] = 0 THEN p ELSE m[3] + 1))
    IN  IF p > Len(s) THEN <<>> ELSE attempt(HeadingMatchAt(s, p))

extract_headings(content) == HeadingsFrom(content, 1)

\* _is_table_row
_is_table_row(line) ==
    /\ StartsWith(line, <<"|">>)
    /\ EndsWith(line, <<"|">>)
    /\ Len(line) >= 2
    /\ Contains(SubSeq(line, 2, Len(line) - 1), <<"|">>)

\* re.match(r'^[\-:]+$', cell) for a stripped cell
DashCell(cell) == cell # <<>> /\ \A i \in 1..Len(cell) : cell[i] \in {"-", ":"}

\* _is_table_separator
_is_table_separator(line0) ==
    LET line == Strip(line0)
    IN  /\ StartsWith(line, <<"|">>)
        /\ EndsWith(line, <<"|">>)
        /\ LET cells == Split(SubSeq(line, 2, Len(line) - 1), <<"|">>)
           IN  \A k \in 1..Len(cells) : DashCell(Strip(cells[k]))

\* _parse_table_row
_parse_table_row(line0) ==
    LET stripped(cells) == [k \in 1..Len(cells) |-> Strip(cells[k])]
        last(line) == IF EndsWith(line, <<"|">>) THEN SubSeq(line, 1, Len(line) - 1) ELSE line
        first(line) == IF StartsWith(line, <<"|">>) THEN Tail(line) ELSE line
    IN  stripped(Split(last(first(line0)), <<"|">>))

\* A variant of the loop over the data rows that takes one row at most
OneRowFrom(lines, i) ==
    IF i <= Len(lines) /\ _is_table_row(Strip(lines[i]))
    THEN <<_parse_table_row(Strip(lines[i]))>>
    ELSE <<>>

\* parse_markdown_tables: the data rows from line i on
RECURSIVE TableRowsFrom(_, _)
TableRowsFrom(lines, i) ==
    IF i <= Len(lines) /\ _is_table_row(Strip(lines[i]))
    THEN <<_parse_table_row(Strip(lines[i]))>> \o TableRowsFrom(lines, i + 1)
    ELSE <<>>

RECURSIVE TablesFrom(_, _)
TablesFrom(lines, i) ==
    IF i > Len(lines) THEN <<>>
    ELSE IF _is_table_row(Strip(lines[i]))
         THEN LET table(j, rows) ==
                      (IF 1 + Len(rows) >= 2
                       THEN <<[headers |-> _parse_table_row(Strip(lines[i])), rows |-> rows]>>
                       ELSE <<>>)
                      \o TablesFrom(lines, j + Len(rows))
                  body(j) == table(j, TableRowsFrom(lines, j))
              IN  body(IF i + 1 <= Len(lines) /\ _is_table_separator(lines[i + 1])
                       THEN i + 2 ELSE i + 1)
         ELSE TablesFrom(lines, i + 1)

\* parse_markdown_tables ('raw_data' is headers followed by rows and is not kept apart)
parse_markdown_tables(content) == TablesFrom(Split(content, <<NL>>), 1)

\* A variant of _clean_markdown_line that rewrites italic before bold
CleanItalicFirst(line) ==
    SubDelimited(SubDelimited(line, <<"*">>, <<"*">>, 0, <<"<","i",">">>, <<"<","/","i",">">>),
                 <<"*","*">>, <<"*","*">>, 0, <<"<","b",">">>, <<"<","/","b",">">>)

\* _clean_markdown_line: bold, then italic, then inline code
_clean_markdown_line(line) ==
    LET b == SubDelimited(line, <<"*","*">>, <<"*","*">>, 0, <<"<","b",">">>, <<"<","/","b",">">>)
        i == SubDelimited(b, <<"*">>, <<"*">>, 0, <<"<","i",">">>, <<"<","/","i",">">>)
    IN  SubDelimited(i, <<BT>>, <<BT>>, 0,
                     <<"<","c","o","d","e",">">>, <<"<","/","c","o","d","e",">">>)

\* A variant of the normalisation of a row that pads and never cuts
PadOnly(row, n) ==
    [k \in 1..(IF Len(row) > n THEN Len(row) ELSE n) |-> IF k <= Len(row) THEN row[k] ELSE <<>>]

\* row padded with empty cells to n cells, then cut to n cells
PadTrunc(row, n) == [k \in 1..n |-> IF k <= Len(row) THEN row[k] ELSE <<>>]

\* '| ' + ' | '.join(cells) + ' |'
TableLine(cells) == <<"|", " ">> \o Join(cells, <<" ", "|", " ">>) \o <<" ", "|">>

\* _clean_table_markdown
_clean_table_markdown(table_lines) ==
    LET IsData(l) == ~_is_table_separator(Strip(l)) /\ _is_table_row(Strip(l))
        parsed(data) == [k \in 1..Len(data) |-> _parse_table_row(Strip(data[k]))]
        cleaned(table_data) ==
            IF table_data = <<>> THEN table_lines
            ELSE LET header_row == table_data[1]
                     n == Len(header_row)
                 IN  <<TableLine(header_row), TableLine([k \in 1..n |-> <<"-","-","-">>])>>
                     \o [k \in 1..(Len(table_data) - 1) |->
                            TableLine(PadTrunc(table_data[k + 1], n))]
    IN  IF table_lines = <<>> THEN <<>>
        ELSE cleaned(parsed(SelectSeq(table_lines, IsData)))

\* clean_markdown_for_pdf: the loop over the lines from line i on
RECURSIVE CleanFrom(_, _, _, _, _)
CleanFrom(lines, i, in_table, table_buffer, cleaned_lines) ==
    IF i > Len(lines)
    THEN IF in_table /\ table_buffer # <<>>
         THEN cleaned_lines \o _clean_table_markdown(table_buffer)
         ELSE cleaned_lines
    ELSE LET line == lines[i]
             stripped_line == Strip(line)
         IN  IF _is_table_row(stripped_line)
             THEN CleanFrom(lines, i + 1, TRUE,
                            (IF in_table THEN table_buffer ELSE <<>>) \o <<line>>,
                            cleaned_lines)
             ELSE IF _is_table_separator(stripped_line)
             THEN CleanFrom(lines, i + 1, in_table,
                            IF in_table THEN table_buffer \o <<line>> ELSE table_buffer,
                            cleaned_lines)
             ELSE CleanFrom(lines, i + 1, FALSE, <<>>,
                            (IF in_table
                             THEN cleaned_lines \o _clean_table_markdown(table_buffer)
                             ELSE cleaned_lines) \o <<_clean_markdown_line(line)>>)

clean_markdown_for_pdf(content) ==
    Join(CleanFrom(Split(content, <<NL>>), 1, FALSE, <<>>, <<>>), <<NL>>)

\* The words of a generic document title (the list literal of both TOC builders)
TitleWords == { <<"t","e","c","h","n","i","c","a","l">>, <<"d","e","s","i","g","n">>,
                <<"d","o","c","u","m","e","n","t">>, <<"t","i","t","l","e">> }

\* A variant of the test for the main title that does not look at the level
IsMainTitleAnyLevel(heading) ==
    \E word \in TitleWords : Contains(Lower(heading.title), word)

\* heading['level'] == 1 and any(word in heading['title'].lower() for word in [...])
IsMainTitle(heading) ==
    heading.level = 1 /\ \E word \in TitleWords : Contains(Lower(heading.title), word)

\* generate_toc_markdown: the TOC lines of the headings that are kept
TocMarkdownLine(heading) ==
    Repeat(" ", 2 * (heading.level - 1)) \o <<"-", " ", "[">> \o heading.title
    \o <<"]", "(", "#">> \o heading.id \o <<")">>

generate_toc_markdown(content) ==
    LET NotTitle(h) == ~IsMainTitle(h)
        first == <<"#"," ","T","a","b","l","e"," ","o","f"," ",
                   "C","o","n","t","e","n","t","s", NL>>
        toc_lines(kept) == <<first>> \o [k \in 1..Len(kept) |-> TocMarkdownLine(kept[k])]
        toc(headings) ==
            IF headings = <<>> THEN <<>>
            ELSE Join(toc_lines(SelectSeq(headings, NotTitle)), <<NL>>) \o <<NL>>
    IN  toc(extract_headings(content))

(***************************************************************************)
(* PDFGenerator (pdf_generator.py): the layout blocks and the pure parts   *)
(***************************************************************************)
Spacer(h) == [type |-> "Spacer", size |-> h]

Paragraph(text, style) == [type |-> "Paragraph", text |-> text, style |-> style]

PageBreak == [type |-> "PageBreak"]

Table(data) == [type |-> "Table", data |-> data]

\* Image(image_buffer, ...) built from the raster file of kind `kind`
Image(kind) == [type |-> "Image", raster |-> kind]

\* The value of a failed diagram or table (Python's None)
None == [type |-> "None"]

\* re.sub of a pattern d([^d]+)d, with the lookarounds (?<!d) and (?!d) when look:
\* the leftmost position where it matches, or 0
RunMatchAt(s, d, look) ==
    LET Closed(p, q) == q >= p + 2 /\ (look => (q = Len(s) \/ s[q + 1] # d))
        Valid(p) == /\ s[p] = d
                    /\ look => (p = 1 \/ s[p - 1] # d)
                    /\ Closed(p, FindFrom(s, <<d>>, p + 1))
    IN  SetMin({p \in 1..(Len(s) + 1) : p > Len(s) \/ Valid(p)}) % (Len(s) + 1)

RECURSIVE SubRun(_, _, _, _, _)
SubRun(s, d, look, pre, post) ==
    LET match(p, q) ==
            SubSeq(s, 1, p - 1) \o pre \o SubSeq(s, p + 1, q - 1) \o post
            \o SubRun(From(s, q + 1), d, look, pre, post)
        opened(p) == IF p = 0 THEN s ELSE match(p, FindFrom(s, <<d>>, p + 1))
    IN  opened(RunMatchAt(s, d, look))

\* re.sub(r'\[([^\]]+)\]\([^)]+\)', r'\1', text): a link becomes its label
LinkMatchAt(s) ==
    LET Closed(p, q) == /\ q >= p + 2
                        /\ q + 1 <= Len(s) /\ s[q + 1] = "("
                        /\ FindFrom(s, <<")">>, q + 2) >= q + 3
        Valid(p) == s[p] = "[" /\ Closed(p, FindFrom(s, <<"]">>, p + 1))
    IN  SetMin({p \in 1..(Len(s) + 1) : p > Len(s) \/ Valid(p)}) % (Len(s) + 1)

RECURSIVE SubLinks(_)
SubLinks(s) ==
    LET match(p, q, r) ==
            SubSeq(s, 1, p - 1) \o SubSeq(s, p + 1, q - 1) \o SubLinks(From(s, r + 1))
        label(p, q) == match(p, q, FindFrom(s, <<")">>, q + 2))
        opened(p) == IF p = 0 THEN s ELSE label(p, FindFrom(s, <<"]">>, p + 1))
    IN  opened(LinkMatchAt(s))

\* _process_inline_markdown: bold, italic, inline code, links, strikethrough
_process_inline_markdown(text) ==
    LET b == SubDelimited(text, <<"*","*">>, <<"*","*">>, 1, <<"<","b",">">>, <<"<","/","b",">">>)
        i == SubRun(b, "*", TRUE, <<"<","i",">">>, <<"<","/","i",">">>)
        c == SubRun(i, BT, FALSE, <<"<","f","o","n","t"," ","n","a","m","e","=","\"","C","o","u","r","i","e","r","\"",">","<","b",">">>, <<"<","/","b",">","<","/","f","o","n","t",">">>)
        l == SubLinks(c)
    IN  SubDelimited(l, <<"~","~">>, <<"~","~">>, 1, <<"<","s","t","r","i","k","e",">">>, <<"<","/","s","t","r","i","k","e",">">>)

\* A variant of _reconstruct_table_text that writes no separator line
ReconstructNoSeparator(table_data) ==
    Join((IF table_data.headers # <<>> THEN <<TableLine(table_data.headers)>> ELSE <<>>)
         \o [k \in 1..Len(table_data.rows) |-> TableLine(table_data.rows[k])],
         <<NL>>)

\* _reconstruct_table_text
_reconstruct_table_text(table_data) ==
    LET n == Len(table_data.headers)
        head == IF table_data.headers # <<>>
                THEN <<TableLine(table_data.headers),
                       TableLine([k \in 1..n |-> <<"-","-","-">>])>>
                ELSE <<>>
    IN  Join(head \o [k \in 1..Len(table_data.rows) |-> TableLine(table_data.rows[k])],
             <<NL>>)

\* _create_pdf_table: the row of formatted cells, padded with Paragraph('') and
\* cut to the number of header cells
FormatRow(row, n) ==
    LET formatted_row == [k \in 1..Len(row) |-> _process_inline_markdown(row[k])]
    IN  PadTrunc(formatted_row, n)

\* _create_pdf_table (the cells of the Table are the texts of its Paragraphs)
_create_pdf_table(table_data) ==
    IF table_data.headers = <<>> \/ table_data.rows = <<>> THEN None
    ELSE LET headers == [k \in 1..Len(table_data.headers) |->
                            _process_inline_markdown(table_data.headers[k])]
         IN  Table(<<headers>> \o [k \in 1..Len(table_data.rows) |->
                                      FormatRow(table_data.rows[k], Len(table_data.headers))])

\* re.match(r'^\d+\.\s', line)
NumberedPrefix(line) ==
    LET ND == {i \in 1..Len(line) : line[i] \notin Digits}
        n  == IF ND = {} THEN Len(line) + 1 ELSE SetMin(ND)
    IN  n >= 2 /\ n + 1 <= Len(line) /\ line[n] = "." /\ line[n + 1] \in Whitespace

\* _process_markdown_lines: the blocks one line appends to the story
LineBlocks(line0) ==
    LET line == Strip(line0)
    IN  IF line = <<>> THEN <<>>
        ELSE IF StartsWith(line, <<"#"," ">>)
        THEN <<Spacer(20), Paragraph(_process_inline_markdown(From(line, 3)), "CustomHeading1"),
               Spacer(16)>>
        ELSE IF StartsWith(line, <<"#","#"," ">>)
        THEN <<Spacer(16), Paragraph(_process_inline_markdown(From(line, 4)), "CustomHeading2"),
               Spacer(12)>>
        ELSE IF StartsWith(line, <<"#","#","#"," ">>)
        THEN <<Spacer(12), Paragraph(_process_inline_markdown(From(line, 5)), "CustomHeading3"),
               Spacer(8)>>
        ELSE IF StartsWith(line, <<"#","#","#","#"," ">>)
        THEN <<Spacer(10), Paragraph(_process_inline_markdown(From(line, 6)), "CustomHeading4"),
               Spacer(6)>>
        ELSE IF StartsWith(line, <<"-"," ">>) \/ StartsWith(line, <<"*"," ">>)
        THEN IF StartsWith(line, <<" "," ","-"," ">>) \/ StartsWith(line, <<" "," ","*"," ">>)
             THEN <<Paragraph(<<" "," "," "," ",HOLLOW," ">> \o _process_inline_markdown(From(line, 5)),
                              "BulletPoint")>>
             ELSE <<Paragraph(<<BULLET," ">> \o _process_inline_markdown(From(line, 3)),
                              "BulletPoint")>>
        ELSE IF NumberedPrefix(line)
        THEN <<Paragraph(_process_inline_markdown(line), "BulletPoint")>>
        ELSE IF ~StartsWith(line, <<BT, BT, BT>>)
        THEN <<Paragraph(_process_inline_markdown(line), "Body"), Spacer(4)>>
        ELSE <<>>

\* _process_markdown_lines
RECURSIVE _process_markdown_lines(_)
_process_markdown_lines(lines) ==
    IF lines = <<>> THEN <<>>
    ELSE LineBlocks(lines[1]) \o _process_markdown_lines(Tail(lines))

\* The fence lines of a diagram as clean_markdown_for_pdf leaves them
MermaidOpen == <<"<","c","o","d","e",">","<","/","c","o","d","e",">">> \o <<BT, "m","e","r","m","a","i","d", NL>>

MermaidClose == <<NL>> \o <<"<","c","o","d","e",">","<","/","c","o","d","e",">">> \o <<BT>>

\* re.findall(mermaid_pattern, content, re.DOTALL)
RECURSIVE MermaidMatches(_)
MermaidMatches(content) ==
    LET match(p, q) ==
            IF p = 0 \/ q = 0 THEN <<>>
            ELSE <<SubSeq(content, p + Len(MermaidOpen), q - 1)>>
                 \o MermaidMatches(From(content, q + Len(MermaidClose)))
        opened(p) ==
            match(p, IF p = 0 THEN 0 ELSE FindFrom(content, MermaidClose, p + Len(MermaidOpen)))
    IN  opened(FindFrom(content, MermaidOpen, 1))

\* f'[MERMAID_DIAGRAM_{i}]' and f'[TABLE_{i}]'
MermaidPlaceholder(i) == <<"[","M","E","R","M","A","I","D","_","D","I","A","G","R","A","M","_">> \o Str(i) \o <<"]">>

TablePlaceholder(i) == <<"[","T","A","B","L","E","_">> \o Str(i) \o <<"]">>

\* The loop that replaces each diagram by its placeholder (matches k..)
RECURSIVE ReplaceMermaid(_, _, _)
ReplaceMermaid(content, matches, k) ==
    IF k > Len(matches) THEN content
    ELSE ReplaceMermaid(ReplaceFirst(content, MermaidOpen \o matches[k] \o MermaidClose,
                                     MermaidPlaceholder(k - 1)),
                        matches, k + 1)

\* The loop that replaces each parsed table by its placeholder (tables k..)
RECURSIVE ReplaceTables(_, _, _)
ReplaceTables(content, tables, k) ==
    IF k > Len(tables) THEN content
    ELSE ReplaceTables(ReplaceFirst(content, _reconstruct_table_text(tables[k]),
                                    TablePlaceholder(k - 1)),
                       tables, k + 1)

\* _process_markdown_content up to the split into sections: the diagram
\* sources, the parsed tables and the sections, each stripped
PrepareContent(raw) ==
    LET split(mermaid_matches, tables, sections) ==
            [mermaid |-> mermaid_matches, tables |-> tables,
             sections |-> [k \in 1..Len(sections) |-> Strip(sections[k])]]
        with_tables(mermaid_matches, content, tables) ==
            split(mermaid_matches, tables, Split(ReplaceTables(content, tables, 1), <<NL, NL>>))
        without_diagrams(mermaid_matches, content) ==
            with_tables(mermaid_matches, content, parse_markdown_tables(content))
        with_diagrams(content, mermaid_matches) ==
            without_diagrams(mermaid_matches, ReplaceMermaid(content, mermaid_matches, 1))
        cleaned(content) == with_diagrams(content, MermaidMatches(content))
    IN  cleaned(clean_markdown_for_pdf(raw))

\* section in table_replacements: the index of the table placeholder the
\* section equals, or 0
TableIndex(section, n) ==
    LET K == {k \in 1..n : section = TablePlaceholder(k - 1)}
    IN  IF K = {} THEN 0 ELSE SetMin(K)

\* section in mermaid_replacements: likewise
MermaidIndex(section, n) ==
    LET K == {k \in 1..n : section = MermaidPlaceholder(k - 1)}
    IN  IF K = {} THEN 0 ELSE SetMin(K)

\* The number of characters of the diagram source the fallback block shows
FallbackChars == 200

\* A variant of DiagramBlocks that emits nothing for a failed diagram
DiagramBlocksNoFallback(source, diagram_img) ==
    IF diagram_img # None
    THEN <<Spacer(16), Paragraph(<<"S","y","s","t","e","m"," ","A","r","c","h","i","t","e","c","t","u","r","e"," ","D","i","a","g","r","a","m">>, "CustomHeading3"), Spacer(8),
           diagram_img, Spacer(16)>>
    ELSE <<>>

\* The blocks for a diagram section: the image under its caption, or the
\* textual fallback when diagram_img is None
DiagramBlocks(source, diagram_img) ==
    IF diagram_img # None
    THEN <<Spacer(16), Paragraph(<<"S","y","s","t","e","m"," ","A","r","c","h","i","t","e","c","t","u","r","e"," ","D","i","a","g","r","a","m">>, "CustomHeading3"), Spacer(8),
           diagram_img, Spacer(16)>>
    ELSE <<Spacer(12),
           Paragraph(<<"[","M","e","r","m","a","i","d"," ","D","i","a","g","r","a","m","]","\n">> \o Take(source, FallbackChars) \o <<".",".",".">>,
                     "CodeBlock"),
           Spacer(12)>>

\* The state of the loop over the sections before the first one
BodyStart == [story |-> <<>>, in_code_block |-> FALSE, code_block_content |-> <<>>]

CodeBlocks(code) ==
    IF Strip(code) # <<>>
    THEN <<Spacer(8), Paragraph(code, "CodeBlock"), Spacer(8)>>
    ELSE <<>>

\* One iteration of the loop over the sections of a section that is no
\* diagram placeholder
SectionStep(st, section, prep) ==
    LET t == TableIndex(section, Len(prep.tables))
        add(blocks) == [st EXCEPT !.story = @ \o blocks]
        fence == <<BT, BT, BT>>
    IN  IF t # 0
        THEN LET table(table_element) ==
                      IF table_element # None
                      THEN add(<<Spacer(12), table_element, Spacer(12)>>)
                      ELSE st
             IN  table(_create_pdf_table(prep.tables[t]))
        ELSE IF StartsWith(section, fence) /\ EndsWith(section, fence)
        THEN LET lines == Split(section, <<NL>>)
             IN  IF Len(lines) >= 2
                 THEN add(CodeBlocks(Join(SubSeq(lines, 2, Len(lines) - 1), <<NL>>)))
                 ELSE st
        ELSE IF StartsWith(section, fence)
        THEN [st EXCEPT !.in_code_block = TRUE, !.code_block_content = <<From(section, 4)>>]
        ELSE IF EndsWith(section, fence)
        THEN LET content == st.code_block_content \o <<SubSeq(section, 1, Len(section) - 3)>>
                 code_text == Strip(Join(content, <<NL>>))
             IN  [story |-> st.story \o CodeBlocks(code_text),
                  in_code_block |-> FALSE, code_block_content |-> <<>>]
        ELSE IF st.in_code_block
        THEN [st EXCEPT !.code_block_content = @ \o <<section>>]
        ELSE IF section = <<>> THEN st
        ELSE add(_process_markdown_lines(Split(section, <<NL>>)))

\* The index of the diagram a section stands for, 0 when it is no diagram
\* placeholder (a table placeholder is looked up first)
DiagramOf(section, prep) ==
    IF TableIndex(section, Len(prep.tables)) # 0 THEN 0
    ELSE MermaidIndex(section, Len(prep.mermaid))

\* One iteration of the loop over the sections; diagram_img is what
\* _generate_mermaid_image returned when the section is a diagram placeholder
BodyStep(st, section, prep, diagram_img) ==
    LET d == DiagramOf(section, prep)
    IN  IF d # 0
        THEN [st EXCEPT !.story = @ \o DiagramBlocks(prep.mermaid[d], diagram_img)]
        ELSE SectionStep(st, section, prep)

\* _process_markdown_content from section k on; imgs[k] is what
\* _generate_mermaid_image returns for section k when it is a diagram
RECURSIVE BodyFrom(_, _, _, _)
BodyFrom(st, prep, k, imgs) ==
    IF k > Len(prep.sections) THEN st.story
    ELSE BodyFrom(BodyStep(st, prep.sections[k], prep, imgs[k]), prep, k + 1, imgs)

_process_markdown_content(raw, imgs) ==
    BodyFrom(BodyStart, PrepareContent(raw), 1, imgs)

\* _create_title_page.  The date cell is datetime.now() formatted, an input
\* of the environment: Today stands for it.
Today == <<"T","O","D","A","Y">>

_create_title_page ==
    <<Spacer(100),
      Paragraph(
        <<"T","e","c","h","n","i","c","a","l"," ","D","e","s","i","g","n"," ","D","o","c",
          "u","m","e","n","t">>,
        "DocumentTitle"),
      Paragraph(
        <<"C","o","m","p","r","e","h","e","n","s","i","v","e"," ","S","y","s","t","e","m",
          " ","A","r","c","h","i","t","e","c","t","u","r","e"," ","&"," ","I","m","p","l",
          "e","m","e","n","t","a","t","i","o","n"," ","G","u","i","d","e">>,
        "Subtitle"),
      Spacer(80),
      Table(<< <<<<"D","o","c","u","m","e","n","t"," ","T","y","p","e",":">>, <<"T","e","c","h","n","i","c","a","l"," ","S","p","e","c","i","f","i","c","a","t","i","o","n">>>>,
               <<<<"G","e","n","e","r","a","t","e","d"," ","B","y",":">>, <<"M","i","d","d","l","e","W","a","r","e"," ","A","s","s","i","s","t","a","n","t">>>>,
               <<<<"D","a","t","e",":">>, Today>>,
               <<<<"V","e","r","s","i","o","n",":">>, <<"1",".","0",".","0">>>> >>),
      Spacer(60),
      Paragraph(
        <<"T","h","i","s"," ","d","o","c","u","m","e","n","t"," ","c","o","n","t","a","i",
          "n","s"," ","t","e","c","h","n","i","c","a","l"," ","s","p","e","c","i","f","i",
          "c","a","t","i","o","n","s"," ","a","n","d"," ","a","r","c","h","i","t","e","c",
          "t","u","r","a","l"," ","d","e","t","a","i","l","s"," ","g","e","n","e","r","a",
          "t","e","d"," ","b","y"," ","a","d","v","a","n","c","e","d"," ","A","I"," ","a",
          "n","a","l","y","s","i","s","."," ","A","l","l"," ","d","i","a","g","r","a","m",
          "s"," ","a","n","d"," ","c","o","d","e"," ","e","x","a","m","p","l","e","s"," ",
          "a","r","e"," ","p","r","o","d","u","c","t","i","o","n","-","r","e","a","d","y",
          " ","a","n","d"," ","f","o","l","l","o","w"," ","i","n","d","u","s","t","r","y",
          " ","b","e","s","t"," ","p","r","a","c","t","i","c","e","s",".">>,
        "Quote")>>

TocHeading == <<Paragraph(<<"T","a","b","l","e"," ","o","f"," ","C","o","n","t","e","n","t","s">>, "CustomHeading1"), Spacer(20)>>

\* _create_toc_placeholder
PlaceholderEntries ==
    <<
      <<"1","."," ","P","r","o","j","e","c","t"," ","O","v","e","r","v","i","e","w"," ",".",
        ".",".",".",".",".",".",".",".",".",".",".",".",".",".",".",".",".",".",".",".",".",
        ".",".",".",".",".",".",".",".",".",".",".",".",".",".",".",".",".",".",".",".",".",
        ".",".",".",".",".",".",".",".",".",".",".",".",".","."," ","3">>,
      <<"2","."," ","S","y","s","t","e","m"," ","A","r","c","h","i","t","e","c","t","u","r",
        "e"," ",".",".",".",".",".",".",".",".",".",".",".",".",".",".",".",".",".",".",".",
        ".",".",".",".",".",".",".",".",".",".",".",".",".",".",".",".",".",".",".",".",".",
        ".",".",".",".",".",".",".",".",".","."," ","5">>,
      <<"3","."," ","T","e","c","h","n","i","c","a","l"," ","I","m","p","l","e","m","e","n",
        "t","a","t","i","o","n"," ",".",".",".",".",".",".",".",".",".",".",".",".",".",".",
        ".",".",".",".",".",".",".",".",".",".",".",".",".",".",".",".",".",".",".",".",".",
        ".",".",".",".","."," ","8">>,
      <<"4","."," ","D","a","t","a"," ","F","l","o","w"," ","D","i","a","g","r","a","m","s",
        " ",".",".",".",".",".",".",".",".",".",".",".",".",".",".",".",".",".",".",".",".",
        ".",".",".",".",".",".",".",".",".",".",".",".",".",".",".",".",".",".",".",".",".",
        ".",".",".",".",".",".","."," ","1","2">>,
      <<"5","."," ","C","o","d","e"," ","E","x","a","m","p","l","e","s"," ",".",".",".",".",
        ".",".",".",".",".",".",".",".",".",".",".",".",".",".",".",".",".",".",".",".",".",
        ".",".",".",".",".",".",".",".",".",".",".",".",".",".",".",".",".",".",".",".",".",
        ".",".",".",".",".",".",".",".",".","."," ","1","5">>,
      <<"6","."," ","D","e","p","l","o","y","m","e","n","t"," ","S","t","r","a","t","e","g",
        "y"," ",".",".",".",".",".",".",".",".",".",".",".",".",".",".",".",".",".",".",".",
        ".",".",".",".",".",".",".",".",".",".",".",".",".",".",".",".",".",".",".",".",".",
        ".",".",".",".",".",".","."," ","1","8">>
    >>

_create_toc_placeholder ==
    LET entry(k) == IF k % 2 = 1 THEN Paragraph(PlaceholderEntries[(k + 1) \div 2], "Normal")
                    ELSE Spacer(8)
    IN  TocHeading \o [k \in 1..(2 * Len(PlaceholderEntries)) |-> entry(k)]

\* _create_dynamic_toc: the first page estimate, the number of entries per
\* estimated page, the longest title shown whole, and the width of an entry
TocBasePage == 3

TocEntriesPerPage == 3

TocMaxTitle == 45

TocLineWidth == 55

\* the smallest number of leader dots
TocMinDots == 3

\* f'TOCLevel{level}'
TocStyleName(level) ==
    <<"TOCLevel1", "TOCLevel2", "TOCLevel3", "TOCLevel4", "TOCLevel5", "TOCLevel6">>[level]

\* A variant of the text of a TOC entry without the minimum of leader dots
TocEntryTextNoFloor(heading, i) ==
    LET indent_level == IF heading.level - 1 > 0 THEN heading.level - 1 ELSE 0
        page_ref == Str(TocBasePage + (i \div TocEntriesPerPage))
        title == IF Len(heading.title) > TocMaxTitle
                 THEN Take(heading.title, TocMaxTitle - 3) \o <<".",".",".">>
                 ELSE heading.title
        base_length == Len(title) + Len(page_ref) + (indent_level * 2)
    IN  Repeat(" ", 2 * indent_level) \o title \o <<" ">>
        \o Repeat(".", TocLineWidth - base_length) \o <<" ">> \o page_ref

\* _create_dynamic_toc: the text of the entry of headings[i + 1]  (i as enumerate gives it)
TocEntryText(heading, i) ==
    LET indent_level == IF heading.level - 1 > 0 THEN heading.level - 1 ELSE 0
        page_ref == Str(TocBasePage + (i \div TocEntriesPerPage))
        title == IF Len(heading.title) > TocMaxTitle
                 THEN Take(heading.title, TocMaxTitle - 3) \o <<".",".",".">>
                 ELSE heading.title
        base_length == Len(title) + Len(page_ref) + (indent_level * 2)
        dots_needed == IF TocLineWidth - base_length > TocMinDots
                       THEN TocLineWidth - base_length ELSE TocMinDots
    IN  Repeat(" ", 2 * indent_level) \o title \o <<" ">> \o Repeat(".", dots_needed)
        \o <<" ">> \o page_ref

\* A variant of the blocks of a TOC entry that counts the headings from 1
TocEntryBlocksFromOne(heading, i) ==
    <<Paragraph(TocEntryText(heading, i + 1), TocStyleName(heading.level)), Spacer(4)>>

\* the two blocks of one TOC entry
TocEntryBlocks(heading, i) ==
    <<Paragraph(TocEntryText(heading, i), TocStyleName(heading.level)), Spacer(4)>>

\* _create_dynamic_toc run alone: the entries of headings[k..]
RECURSIVE TocEntriesFrom(_, _)
TocEntriesFrom(headings, k) ==
    IF k > Len(headings) THEN <<>>
    ELSE (IF IsMainTitle(headings[k]) THEN <<>> ELSE TocEntryBlocks(headings[k], k - 1))
         \o TocEntriesFrom(headings, k + 1)

\* A variant of _create_dynamic_toc that falls back to the placeholder when
\* no entry is listed
CreateTocPlaceholderWhenNoEntry(content) ==
    LET headings == extract_headings(content)
    IN  IF TocEntriesFrom(headings, 1) = <<>> THEN _create_toc_placeholder
        ELSE TocHeading \o TocEntriesFrom(headings, 1)

_create_dynamic_toc(content) ==
    LET headings == extract_headings(content)
    IN  IF headings = <<>> THEN _create_toc_placeholder
        ELSE TocHeading \o TocEntriesFrom(headings, 1)

(***************************************************************************)
(* The documents of the model                                              *)
(***************************************************************************)

\* The end-to-end example: a title, a section, a paragraph with emphasis, a table
EndToEndDoc ==
    <<"#"," ","T","i","t","l","e","\n","\n","#","#"," ","S","e","c","t","i","o","n"," ","A",
      "\n","\n","S","o","m","e"," ","*","i","t","a","l","i","c","*"," ","a","n","d"," ","*",
      "*","b","o","l","d","*","*"," ","t","e","x","t",".","\n","\n","|"," ","H","1"," ","|",
      " ","H","2"," ","|","\n","|","-","-","-","|","-","-","-","|","\n","|"," ","a"," ","|",
      " ","b"," ","|">>

\* A level-2 heading, a diagram, a paragraph after it
DiagramDoc ==
    <<"#","#"," ","F","l","o","w","\n","\n",BT,BT,BT,"m","e","r","m","a","i","d","\n","g",
      "r","a","p","h"," ","T","D","\n",BT,BT,BT,"\n","\n","a","f","t","e","r">>

\* A diagram whose source is one character longer than the fallback shows
LongDoc ==
    <<BT,BT,BT,"m","e","r","m","a","i","d","\n">> \o Repeat("x", FallbackChars + 1)
    \o <<"\n",BT,BT,BT,"\n","\n","a","f","t","e","r">>

\* Two diagrams and a closing paragraph
TwoDiagramsDoc ==
    <<BT,BT,BT,"m","e","r","m","a","i","d","\n","A","\n",BT,BT,BT,"\n","\n",BT,BT,BT,"m",
      "e","r","m","a","i","d","\n","B","\n",BT,BT,BT,"\n","\n","e","n","d">>

\* A level-1 title that is kept out of the TOC, a level-2 heading, text
HeadingsDoc ==
    <<"#"," ","T","i","t","l","e","\n","\n","#","#"," ","P","a","r","t","s","\n","\n","t",
      "e","x","t">>

\* No heading, no diagram
PlainDoc ==
    <<"j","u","s","t"," ","t","e","x","t">>

\* The empty text
EmptyDoc == <<>>

\* The documents of a request that runs alone
SeqDocs == {EndToEndDoc, DiagramDoc, LongDoc, TwoDiagramsDoc, HeadingsDoc, PlainDoc, EmptyDoc}

\* The documents of two requests that run in parallel
ParDocs == {DiagramDoc, HeadingsDoc}

(***************************************************************************)
(* The state: two requests served by one PDFGenerator and one process      *)
(***************************************************************************)
Requests == {"A", "B"}

\* The largest number of diagrams of a document of the model: the scratch
\* files of the n-th call of _generate_mermaid_image of a request carry n.
MaxDiagrams == 2

VARIABLES
    doc,            \* markdown_content of each request
    pc,             \* where each request is in generate_pdf
    story,          \* generate_pdf: story
    headings,       \* _create_dynamic_toc: headings
    toc_i,          \* _create_dynamic_toc: the loop index (1-based)
    toc_elements,   \* _create_dynamic_toc: toc_elements
    prep,           \* _process_markdown_content: diagram sources, tables, sections
    sec_k,          \* _process_markdown_content: the index of the current section
    body,           \* _process_markdown_content: story, in_code_block, code_block_content
    sec_start,      \* len(story) of _process_markdown_content before each section so far
    calls,          \* the calls of _generate_mermaid_image so far: section, exits, result
    br_n,           \* the number of calls of _generate_mermaid_image so far
    exits,          \* _generate_mermaid_image: how the attempts so far ended
    diagram_img,    \* what _generate_mermaid_image returned
    fs,             \* the file system: the state of each scratch path
    styles,         \* self.styles.byName: the names of the TOC styles added so far
    markdown_parser,\* the global _markdown_parser
    parser,         \* the parser each request got from get_markdown_parser
    mmdc_available, \* MMDC_AVAILABLE
    result,         \* what generate_pdf returned
    exc,            \* the step whose exception generate_pdf raised
    input,          \* the text handed to a function that is applied alone
    output          \* what that function returned

vars == <<doc, pc, story, headings, toc_i, toc_elements, prep, sec_k, body, sec_start,
          calls, br_n, exits, diagram_img, fs, styles, markdown_parser, parser,
          mmdc_available, result, exc, input, output>>

tocVars == <<headings, toc_i, toc_elements>>

bodyVars == <<prep, sec_k, body, sec_start, calls>>

bridgeVars == <<br_n, exits, diagram_img, fs>>

pureVars == <<input, output>>

\* tempfile.NamedTemporaryFile(suffix='.mmd', delete=False): a fresh name for each call
MmdPath(r) == <<"mmd", r, br_n[r]>>

\* output_path = mermaid_file.replace('.mmd', '.png')
PngPath(r) == <<"png", r, br_n[r]>>

\* temp_config_path = '/tmp/temp-puppeteer-config.json'
CfgPath == <<"cfg", "tmp", 0>>

Paths == {<<k, r, n>> : k \in {"mmd", "png"}, r \in Requests, n \in 1..MaxDiagrams}
         \cup {CfgPath}

\* What a path holds: nothing, a file of size 0, a complete file (diagram source
\* or configuration), a raster of a format imghdr knows, or other bytes
\* (a partially written or unrecognised raster).
FileStates == {"absent", "empty", "full", "png", "jpeg", "gif", "other"}

\* How a call of the renderer can end: its exit, and what it wrote to the
\* output path ("untouched": nothing)
Outcomes ==
    {[exit |-> "zero", out |-> o] : o \in {"untouched", "empty", "png", "jpeg", "gif", "other"}}
    \cup {[exit |-> e, out |-> o] : e \in {"nonzero", "timeout"}, o \in {"untouched", "other"}}
    \cup {[exit |-> "error", out |-> "untouched"]}

NoResult == "none"

InitCommon ==
    /\ story = [r \in Requests |-> <<>>]
    /\ headings = [r \in Requests |-> <<>>]
    /\ toc_i = [r \in Requests |-> 1]
    /\ toc_elements = [r \in Requests |-> <<>>]
    /\ prep = [r \in Requests |-> [mermaid |-> <<>>, tables |-> <<>>, sections |-> <<>>]]
    /\ sec_k = [r \in Requests |-> 1]
    /\ body = [r \in Requests |-> BodyStart]
    /\ sec_start = [r \in Requests |-> <<>>]
    /\ calls = [r \in Requests |-> <<>>]
    /\ br_n = [r \in Requests |-> 0]
    /\ exits = [r \in Requests |-> <<>>]
    /\ diagram_img = [r \in Requests |-> None]
    /\ fs = [p \in Paths |-> "absent"]
    /\ styles = {}
    /\ markdown_parser = <<"None">>
    /\ parser = [r \in Requests |-> <<"None">>]
    /\ result = [r \in Requests |-> NoResult]
    /\ exc = [r \in Requests |-> "none"]

\* Two requests in parallel
Init ==
    /\ InitCommon
    /\ doc \in [Requests -> ParDocs]
    /\ pc = [r \in Requests |-> "start"]
    /\ mmdc_available = TRUE
    /\ input = <<>>
    /\ output = <<>>

\* One request alone
InitSeq ==
    /\ InitCommon
    /\ doc \in {[A |-> d, B |-> PlainDoc] : d \in SeqDocs}
    /\ pc = [A |-> "start", B |-> "idle"]
    /\ mmdc_available \in BOOLEAN
    /\ input = <<>>
    /\ output = <<>>

(***************************************************************************)
(* generate_pdf                                                            *)
(***************************************************************************)

\* The marker of an exception that leaves a function
Raised == [type |-> "Raised"]

\* A variant of generate_pdf's handler that logs the exception and returns
\* the buffer
OnExceptionReturnBuffer(where) == [pc |-> "raised", exc |-> where, result |-> "pdf"]

\* generate_pdf's handler, `except Exception as e: ...; raise`: where the
\* request goes and what the caller gets when the step `where` raised
OnException(where) == [pc |-> "raised", exc |-> where, result |-> NoResult]

Fail(r, where) ==
    /\ pc' = [pc EXCEPT ![r] = OnException(where).pc]
    /\ exc' = [exc EXCEPT ![r] = OnException(where).exc]
    /\ result' = [result EXCEPT ![r] = OnException(where).result]

\* A variant of the first step of generate_pdf that adds no page break after
\* the title page
BeginNoBreak(r) ==
    /\ pc[r] = "start"
    /\ story' = [story EXCEPT ![r] = _create_title_page]
    /\ pc' = [pc EXCEPT ![r] = "toc_parser"]
    /\ UNCHANGED <<doc, tocVars, bodyVars, bridgeVars, styles, markdown_parser, parser,
                   mmdc_available, result, exc, pureVars>>

\* buffer, doc, story = []; the title page and its page break
Begin(r) ==
    /\ pc[r] = "start"
    /\ story' = [story EXCEPT ![r] = _create_title_page \o <<PageBreak>>]
    /\ pc' = [pc EXCEPT ![r] = "toc_parser"]
    /\ UNCHANGED <<doc, tocVars, bodyVars, bridgeVars, styles, markdown_parser, parser,
                   mmdc_available, result, exc, pureVars>>

\* get_markdown_parser: `if _markdown_parser is None`, and the return when it is not
ParserCheck(r) ==
    /\ pc[r] \in {"toc_parser", "body_parser"}
    /\ IF markdown_parser = <<"None">>
       THEN /\ pc' = [pc EXCEPT ![r] = IF pc[r] = "toc_parser" THEN "toc_parser_new"
                                        ELSE "body_parser_new"]
            /\ UNCHANGED parser
       ELSE /\ parser' = [parser EXCEPT ![r] = markdown_parser]
            /\ pc' = [pc EXCEPT ![r] = IF pc[r] = "toc_parser" THEN "toc_begin"
                                        ELSE "body_begin"]
    /\ UNCHANGED <<doc, story, tocVars, bodyVars, bridgeVars, styles, markdown_parser,
                   mmdc_available, result, exc, pureVars>>

\* get_markdown_parser: `_markdown_parser = MarkdownParser()` and the return
ParserCreate(r) ==
    /\ pc[r] \in {"toc_parser_new", "body_parser_new"}
    /\ markdown_parser' = <<"MarkdownParser", r>>
    /\ parser' = [parser EXCEPT ![r] = <<"MarkdownParser", r>>]
    /\ pc' = [pc EXCEPT ![r] = IF pc[r] = "toc_parser_new" THEN "toc_begin" ELSE "body_begin"]
    /\ UNCHANGED <<doc, story, tocVars, bodyVars, bridgeVars, styles,
                   mmdc_available, result, exc, pureVars>>

\* _create_dynamic_toc up to its loop: the headings; the placeholder when
\* there are none, with generate_pdf's page break after it
TocBegin(r) ==
    /\ pc[r] = "toc_begin"
    /\ LET hs == extract_headings(doc[r])
       IN  /\ headings' = [headings EXCEPT ![r] = hs]
           /\ toc_i' = [toc_i EXCEPT ![r] = 1]
           /\ IF hs = <<>>
              THEN /\ story' = [story EXCEPT ![r] = @ \o _create_toc_placeholder \o <<PageBreak>>]
                   /\ pc' = [pc EXCEPT ![r] = "body_parser"]
                   /\ UNCHANGED toc_elements
              ELSE /\ toc_elements' = [toc_elements EXCEPT ![r] = TocHeading]
                   /\ pc' = [pc EXCEPT ![r] = "toc_loop"]
                   /\ UNCHANGED story
    /\ UNCHANGED <<doc, bodyVars, bridgeVars, styles, markdown_parser, parser,
                   mmdc_available, result, exc, pureVars>>

\* One iteration of the loop of _create_dynamic_toc up to the lookup
\* `style_name not in [s.name for s in self.styles.byName.values()]`; with
\* the style present the entry is appended.  After the last heading the TOC
\* is returned and generate_pdf adds it and a page break.
TocEntry(r) ==
    /\ pc[r] = "toc_loop"
    /\ IF toc_i[r] > Len(headings[r])
       THEN /\ story' = [story EXCEPT ![r] = @ \o toc_elements[r] \o <<PageBreak>>]
            /\ pc' = [pc EXCEPT ![r] = "body_parser"]
            /\ UNCHANGED <<toc_i, toc_elements>>
       ELSE LET heading == headings[r][toc_i[r]]
            IN  IF IsMainTitle(heading)
                THEN /\ toc_i' = [toc_i EXCEPT ![r] = @ + 1]
                     /\ UNCHANGED <<pc, story, toc_elements>>
                ELSE IF TocStyleName(heading.level) \in styles
                THEN /\ toc_elements' = [toc_elements EXCEPT ![r] =
                                            @ \o TocEntryBlocks(heading, toc_i[r] - 1)]
                     /\ toc_i' = [toc_i EXCEPT ![r] = @ + 1]
                     /\ UNCHANGED <<pc, story>>
                ELSE /\ pc' = [pc EXCEPT ![r] = "toc_add"]
                     /\ UNCHANGED <<story, toc_i, toc_elements>>
    /\ UNCHANGED <<doc, headings, bodyVars, bridgeVars, styles, markdown_parser, parser,
                   mmdc_available, result, exc, pureVars>>

\* self.styles.add(ParagraphStyle(name=style_name, ...)): the style sheet
\* raises KeyError for a name it already holds; then the entry is appended
TocStyleAdd(r) ==
    /\ pc[r] = "toc_add"
    /\ LET heading == headings[r][toc_i[r]]
           name == TocStyleName(heading.level)
       IN  IF name \in styles
           THEN /\ Fail(r, "toc")
                /\ UNCHANGED <<styles, toc_i, toc_elements>>
           ELSE /\ styles' = styles \cup {name}
                /\ toc_elements' = [toc_elements EXCEPT ![r] =
                                       @ \o TocEntryBlocks(heading, toc_i[r] - 1)]
                /\ toc_i' = [toc_i EXCEPT ![r] = @ + 1]
                /\ pc' = [pc EXCEPT ![r] = "toc_loop"]
                /\ UNCHANGED <<result, exc>>
    /\ UNCHANGED <<doc, story, headings, bodyVars, bridgeVars, markdown_parser, parser,
                   mmdc_available, pureVars>>

\* _process_markdown_content up to its loop over the sections
BodyBegin(r) ==
    /\ pc[r] = "body_begin"
    /\ prep' = [prep EXCEPT ![r] = PrepareContent(doc[r])]
    /\ sec_k' = [sec_k EXCEPT ![r] = 1]
    /\ body' = [body EXCEPT ![r] = BodyStart]
    /\ pc' = [pc EXCEPT ![r] = "body_loop"]
    /\ UNCHANGED <<doc, story, tocVars, sec_start, calls, bridgeVars, styles,
                   markdown_parser, parser, mmdc_available, result, exc, pureVars>>

\* One iteration of the loop over the sections: a section that is no diagram
\* is composed; for a diagram _generate_mermaid_image is called.  After the
\* last section the body is returned and generate_pdf adds it to the story.
BodySection(r) ==
    /\ pc[r] = "body_loop"
    /\ IF sec_k[r] > Len(prep[r].sections)
       THEN /\ story' = [story EXCEPT ![r] = @ \o body[r].story]
            /\ pc' = [pc EXCEPT ![r] = "build"]
            /\ UNCHANGED <<sec_k, body, sec_start>>
       ELSE LET section == prep[r].sections[sec_k[r]]
            IN  /\ sec_start' = [sec_start EXCEPT ![r] = Append(@, Len(body[r].story))]
                /\ IF DiagramOf(section, prep[r]) = 0
                   THEN /\ body' = [body EXCEPT ![r] = SectionStep(@, section, prep[r])]
                        /\ sec_k' = [sec_k EXCEPT ![r] = @ + 1]
                        /\ UNCHANGED <<pc, story>>
                   ELSE /\ pc' = [pc EXCEPT ![r] = "br_start"]
                        /\ UNCHANGED <<story, sec_k, body>>
    /\ UNCHANGED <<doc, tocVars, prep, calls, bridgeVars, styles, markdown_parser, parser,
                   mmdc_available, result, exc, pureVars>>

(***************************************************************************)
(* _generate_mermaid_image: the renderer bridge                            *)
(***************************************************************************)

\* A variant of the handlers of _generate_mermaid_image that catches
\* subprocess.TimeoutExpired alone
BridgeCatchTimeoutOnly(e) == IF e = "TimeoutExpired" THEN None ELSE Raised

\* What the handlers of _generate_mermaid_image return for an exception:
\* `except subprocess.TimeoutExpired`, `except Exception` (inner and outer)
BridgeCatch(e) == None

\* A variant of _process_mermaid_image_simple without the check of the
\* format
ProcessAnyFormat(kind) ==
    IF kind \in {"absent", "empty"} THEN None
    ELSE Image(kind)

\* _process_mermaid_image_simple on a file of the given kind: None for a
\* missing or empty file and for a format imghdr does not know
_process_mermaid_image_simple(kind) ==
    IF kind \in {"absent", "empty"} THEN None
    ELSE IF kind \notin {"png", "jpeg", "gif"} THEN None
    ELSE Image(kind)

\* The call: MMDC_AVAILABLE, the scratch file of the diagram source, and
\* the start of the first attempt.  Writing the scratch file can fail, with
\* the file created or not.
BridgeStart(r) ==
    /\ pc[r] = "br_start"
    /\ br_n' = [br_n EXCEPT ![r] = @ + 1]
    /\ exits' = [exits EXCEPT ![r] = <<>>]
    /\ IF ~mmdc_available
       THEN /\ diagram_img' = [diagram_img EXCEPT ![r] = None]
            /\ pc' = [pc EXCEPT ![r] = "br_return"]
            /\ UNCHANGED fs
       ELSE \E written \in {"full", "absent", "other"} :
               /\ fs' = [fs EXCEPT ![<<"mmd", r, br_n[r] + 1>>] = written]
               /\ IF written = "full"
                  THEN /\ pc' = [pc EXCEPT ![r] = "br_wait1"]
                       /\ UNCHANGED diagram_img
                  ELSE /\ diagram_img' = [diagram_img EXCEPT ![r] = BridgeCatch("Exception")]
                       /\ pc' = [pc EXCEPT ![r] = "br_return"]
    /\ UNCHANGED <<doc, story, tocVars, bodyVars, styles, markdown_parser, parser,
                   mmdc_available, result, exc, pureVars>>

\* A variant of AfterAttempt that treats an attempt that timed out like one
\* with a non-zero exit
AfterAttemptRetryOnTimeout(n, o, png_before) ==
    LET png == IF o.out = "untouched" THEN png_before ELSE o.out
        has_output == png \notin {"absent", "empty"}
        ret(v, left) == [returns |-> TRUE, img |-> v, png |-> left, next |-> "br_return"]
        go(to) == [returns |-> FALSE, img |-> None, png |-> png, next |-> to]
    IN  IF o.exit = "error" THEN ret(BridgeCatch("Exception"), png)
        ELSE IF o.exit = "zero" /\ has_output
        THEN ret(_process_mermaid_image_simple(png), "absent")
        ELSE IF n = 1
        THEN IF o.exit = "zero" THEN ret(None, png) ELSE go("br_cfg_open")
        ELSE IF n = 2 THEN go("br_wait3")
        ELSE ret(None, png)

\* A variant of AfterAttempt that goes on to the second attempt after every
\* first attempt that did not time out, its success included
AfterAttemptNoReturn(n, o, png_before) ==
    LET png == IF o.out = "untouched" THEN png_before ELSE o.out
        has_output == png \notin {"absent", "empty"}
        ret(v, left) == [returns |-> TRUE, img |-> v, png |-> left, next |-> "br_return"]
        go(to) == [returns |-> FALSE, img |-> None, png |-> png, next |-> to]
    IN  IF o.exit = "timeout" THEN ret(BridgeCatch("TimeoutExpired"), png)
        ELSE IF o.exit = "error" THEN ret(BridgeCatch("Exception"), png)
        ELSE IF n = 1 THEN go("br_cfg_open")
        ELSE IF o.exit = "zero" /\ has_output
        THEN ret(_process_mermaid_image_simple(png), "absent")
        ELSE IF n = 2 THEN go("br_wait3")
        ELSE ret(None, png)

\* What follows the end of attempt n with outcome o, the output path holding
\* png_before: the value returned ("ret", with the output file consumed or
\* not) or the next step
AfterAttempt(n, o, png_before) ==
    LET png == IF o.out = "untouched" THEN png_before ELSE o.out
        has_output == png \notin {"absent", "empty"}
        ret(v, left) == [returns |-> TRUE, img |-> v, png |-> left, next |-> "br_return"]
        go(to) == [returns |-> FALSE, img |-> None, png |-> png, next |-> to]
    IN  IF o.exit = "timeout" THEN ret(BridgeCatch("TimeoutExpired"), png)
        ELSE IF o.exit = "error" THEN ret(BridgeCatch("Exception"), png)
        ELSE IF o.exit = "zero" /\ has_output
        THEN ret(_process_mermaid_image_simple(png), "absent")
        ELSE IF n = 1
        THEN IF o.exit = "zero" THEN ret(None, png) ELSE go("br_cfg_open")
        ELSE IF n = 2 THEN go("br_wait3")
        ELSE ret(None, png)

\* The end of an attempt (subprocess.run returns or raises) and what the
\* code does next.  On every return the `finally` clauses run: the temporary
\* configuration is unlinked once the second attempt was started, and the
\* diagram source file is unlinked.
AttemptEnd(r) ==
    /\ pc[r] \in {"br_wait1", "br_wait2", "br_wait3"}
    /\ \E o \in Outcomes :
          LET n == IF pc[r] = "br_wait1" THEN 1 ELSE IF pc[r] = "br_wait2" THEN 2 ELSE 3
              a == AfterAttempt(n, o, fs[PngPath(r)])
          IN  /\ exits' = [exits EXCEPT ![r] = Append(@, o.exit)]
              /\ pc' = [pc EXCEPT ![r] = a.next]
              /\ diagram_img' = [diagram_img EXCEPT ![r] = a.img]
              /\ fs' = [p \in Paths |->
                          IF p = PngPath(r) THEN a.png
                          ELSE IF p = MmdPath(r) /\ a.returns THEN "absent"
                          ELSE IF p = CfgPath /\ a.returns /\ n >= 2 THEN "absent"
                          ELSE fs[p]]
    /\ UNCHANGED <<doc, story, tocVars, bodyVars, br_n, styles, markdown_parser, parser,
                   mmdc_available, result, exc, pureVars>>

\* open(temp_config_path, 'w'): the shared path is created or truncated;
\* when it fails the handler returns and the diagram source file is unlinked
CfgOpen(r) ==
    /\ pc[r] = "br_cfg_open"
    /\ \E ok \in BOOLEAN :
          IF ok
          THEN /\ fs' = [fs EXCEPT ![CfgPath] = "empty"]
               /\ pc' = [pc EXCEPT ![r] = "br_cfg_dump"]
               /\ UNCHANGED diagram_img
          ELSE /\ fs' = [fs EXCEPT ![MmdPath(r)] = "absent"]
               /\ diagram_img' = [diagram_img EXCEPT ![r] = BridgeCatch("Exception")]
               /\ pc' = [pc EXCEPT ![r] = "br_return"]
    /\ UNCHANGED <<doc, story, tocVars, bodyVars, br_n, exits, styles, markdown_parser,
                   parser, mmdc_available, result, exc, pureVars>>

\* json.dump(temp_config, f) and the close of the file, then the start of
\* the second attempt.  A path unlinked since the open stays unlinked.
CfgDump(r) ==
    /\ pc[r] = "br_cfg_dump"
    /\ fs' = [fs EXCEPT ![CfgPath] = IF @ = "absent" THEN "absent" ELSE "full"]
    /\ pc' = [pc EXCEPT ![r] = "br_wait2"]
    /\ UNCHANGED <<doc, story, tocVars, bodyVars, br_n, exits, diagram_img, styles,
                   markdown_parser, parser, mmdc_available, result, exc, pureVars>>

\* Back in the loop over the sections: the image under its caption or the
\* textual fallback.  An exception of the bridge would leave
\* _process_markdown_content and reach generate_pdf's handler.
BridgeReturn(r) ==
    /\ pc[r] = "br_return"
    /\ LET section == prep[r].sections[sec_k[r]]
           source == prep[r].mermaid[DiagramOf(section, prep[r])]
       IN  IF diagram_img[r] = Raised
           THEN /\ Fail(r, "body")
                /\ UNCHANGED <<body, sec_k, calls>>
           ELSE /\ body' = [body EXCEPT ![r].story = @ \o DiagramBlocks(source, diagram_img[r])]
                /\ calls' = [calls EXCEPT ![r] = Append(@,
                                [section |-> sec_k[r], exits |-> exits[r],
                                 img |-> diagram_img[r]])]
                /\ sec_k' = [sec_k EXCEPT ![r] = @ + 1]
                /\ pc' = [pc EXCEPT ![r] = "body_loop"]
                /\ UNCHANGED <<result, exc>>
    /\ UNCHANGED <<doc, story, tocVars, prep, sec_start, bridgeVars, styles,
                   markdown_parser, parser, mmdc_available, pureVars>>

\* doc.build(story, canvasmaker=HeaderFooterCanvas) of the layout library,
\* which lays the story out or raises; then BytesIO(pdf_data) is returned
Build(r) ==
    /\ pc[r] = "build"
    /\ \E ok \in BOOLEAN :
          IF ok
          THEN /\ result' = [result EXCEPT ![r] = "pdf"]
               /\ pc' = [pc EXCEPT ![r] = "done"]
               /\ UNCHANGED exc
          ELSE Fail(r, "build")
    /\ UNCHANGED <<doc, story, tocVars, bodyVars, bridgeVars, styles, markdown_parser,
                   parser, mmdc_available, pureVars>>

Next ==
    \E r \in Requests :
        \/ Begin(r)
        \/ ParserCheck(r)
        \/ ParserCreate(r)
        \/ TocBegin(r)
        \/ TocEntry(r)
        \/ TocStyleAdd(r)
        \/ BodyBegin(r)
        \/ BodySection(r)
        \/ BridgeStart(r)
        \/ AttemptEnd(r)
        \/ CfgOpen(r)
        \/ CfgDump(r)
        \/ BridgeReturn(r)
        \/ Build(r)

\* Two requests served in parallel
Spec == Init /\ [][Next]_vars

\* One request served alone
SpecSeq == InitSeq /\ [][Next]_vars

(***************************************************************************)
(* The table functions applied alone to texts of table lines               *)
(***************************************************************************)

\* The largest number of lines of a text of table lines
MaxLines == 3

\* The lines the texts are made of: rows of three, two and four cells, rows
\* of dashes (which are separator lines as well), a row of empty cells, a
\* separator line of one column (which is no table row), a line of plain text
TableLines ==
    {<<"|"," ","a"," ","|"," ","b"," ","|"," ","c"," ","|">>,
     <<"|"," ","d"," ","|"," ","e"," ","|">>,
     <<"|"," ","f"," ","|"," ","g"," ","|"," ","h"," ","|"," ","i"," ","|">>,
     <<"|"," ","-"," ","|"," ","-"," ","|">>,
     <<"|"," ","-"," ","|"," ","-"," ","|"," ","-"," ","|">>,
     <<"|"," "," ","|"," "," ","|">>,
     <<"|","-","-","-","|">>,
     <<"t","e","x","t">>}

\* The lines joined the way a text holds them
TextsOf(pool, n) ==
    {Join(lines, <<NL>>) : lines \in UNION {[1..k -> pool] : k \in 0..n}}

TableTexts == TextsOf(TableLines, MaxLines)

\* _generate_mermaid_image failing for every section
NoImages == [k \in 1..(MaxLines + 1) |-> None]

InitTables ==
    /\ InitCommon
    /\ doc = [r \in Requests |-> PlainDoc]
    /\ pc = [r \in Requests |-> "idle"]
    /\ mmdc_available = TRUE
    /\ input \in TableTexts
    /\ output = <<>>

\* parse_markdown_tables on the text, and the body _process_markdown_content
\* composes from it
ComposeTables ==
    /\ output = <<>>
    /\ output' = [tables |-> parse_markdown_tables(input),
                  prep |-> PrepareContent(input),
                  body |-> _process_markdown_content(input, NoImages)]
    /\ UNCHANGED <<doc, pc, story, tocVars, bodyVars, bridgeVars, styles, markdown_parser,
                   parser, mmdc_available, result, exc, input>>

SpecTables == InitTables /\ [][ComposeTables]_vars

(***************************************************************************)
(* The display size of a diagram.  The code computes in floating point;    *)
(* the model computes the same expressions in exact fractions <<n, d>>,    *)
(* d > 0, kept in lowest terms.                                            *)
(***************************************************************************)

\* reportlab.lib.units.inch: the points of an inch
inch == 72

\* `/ 96.0  # Assuming 96 DPI`
PixelsPerInch == 96

RECURSIVE Gcd(_, _)
Gcd(a, b) == IF b = 0 THEN a ELSE Gcd(b, a % b)

\* The fraction n / d in lowest terms
Frac(n, d) == <<n \div Gcd(n, d), d \div Gcd(n, d)>>

\* a * b and a / b, cancelling across before multiplying
RMul(a, b) ==
    Frac((a[1] \div Gcd(a[1], b[2])) * (b[1] \div Gcd(b[1], a[2])),
         (a[2] \div Gcd(b[1], a[2])) * (b[2] \div Gcd(a[1], b[2])))

RDiv(a, b) == RMul(a, <<b[2], b[1]>>)

\* a < b
RLess(a, b) == a[1] * b[2] < b[1] * a[2]

\* min(a, b)
RMin(a, b) == IF RLess(b, a) THEN b ELSE a

\* max_width_inches = 6.0 * inch and max_height_inches = 4.5 * inch
max_width_inches == Frac(6 * inch, 1)

max_height_inches == Frac(9 * inch, 2)

\* min_width = 3.0 * inch and min_height = 2.0 * inch
min_width == Frac(3 * inch, 1)

min_height == Frac(2 * inch, 1)

\* scale = min(width_scale, height_scale, 1.0)
Scale(original_width, original_height) ==
    RMin(RMin(RDiv(max_width_inches, Frac(original_width, PixelsPerInch)),
              RDiv(max_height_inches, Frac(original_height, PixelsPerInch))),
         <<1, 1>>)

\* final_width and final_height before the minimum size is looked at
Scaled(original, scale) == RMul(Frac(original, PixelsPerInch), scale)

\* `if final_width < min_width`: the width becomes min_width, the height is
\* multiplied by scale_factor = min_width / final_width
WidenToMin(final) ==
    IF RLess(final[1], min_width)
    THEN <<min_width, RMul(final[2], RDiv(min_width, final[1]))>>
    ELSE final

\* A variant of the second adjustment that raises the height and leaves the
\* width as it is
HeightenOnly(final) ==
    IF RLess(final[2], min_height) THEN <<final[1], min_height>> ELSE final

\* `if final_height < min_height`: likewise for the height
HeightenToMin(final) ==
    IF RLess(final[2], min_height)
    THEN <<RMul(final[1], RDiv(min_height, final[2])), min_height>>
    ELSE final

\* final_width = 5.0 * inch, final_height = 3.5 * inch: the size after an
\* exception of the calculation
FallbackSize == <<Frac(5 * inch, 1), Frac(7 * inch, 2)>>

\* The dimensions assumed for a raster that is no PNG, and for a PNG whose
\* header cannot be read
DefaultDimensions == <<800, 600>>

\* <<final_width, final_height>> as handed to Image(...): the division by a
\* width or a height of 0 raises ZeroDivisionError, which the handler of the
\* calculation turns into the fallback size
FinalSize(original_width, original_height) ==
    IF original_width = 0 \/ original_height = 0 THEN FallbackSize
    ELSE HeightenToMin(WidenToMin(
            <<Scaled(original_width, Scale(original_width, original_height)),
              Scaled(original_height, Scale(original_width, original_height))>>))

\* _get_png_dimensions: the width and height of the IHDR chunk; the default
\* dimensions when the signature or the chunk cannot be read
_get_png_dimensions(header, readable) == IF readable THEN header ELSE DefaultDimensions

\* The dimensions the calculation starts from: those of the header of a PNG,
\* the default ones for the other formats
OriginalDimensions(image_type, header) ==
    IF image_type = "png" THEN header ELSE DefaultDimensions

\* The largest multiple of PixelStep among the pixel sizes of the model
MaxSteps == 12

PixelStep == 48

\* Pixel widths and heights: the multiples of half an inch up to six inches,
\* and sizes beyond the limits of the calculation
Widths == {PixelStep * k : k \in 1..MaxSteps} \cup {800, 1200, 20736, 41568}

Heights == {PixelStep * k : k \in 1..MaxSteps} \cup {600, 900, 960, 31200}

InitScale ==
    /\ InitCommon
    /\ doc = [r \in Requests |-> PlainDoc]
    /\ pc = [r \in Requests |-> "idle"]
    /\ mmdc_available = TRUE
    /\ input \in [image_type : {"png", "jpeg", "gif"}, width : Widths, height : Heights,
                  readable : BOOLEAN]
    /\ output = <<>>

\* The header of the input as _get_png_dimensions reads it
InputHeader == _get_png_dimensions(<<input.width, input.height>>, input.readable)

\* _process_mermaid_image_simple on a raster of the given type and header:
\* the dimensions it starts from, the size it computes, and what it returns
ComputeSize ==
    /\ output = <<>>
    /\ output' = [original |-> OriginalDimensions(input.image_type, InputHeader),
                  final |-> FinalSize(OriginalDimensions(input.image_type, InputHeader)[1],
                                      OriginalDimensions(input.image_type, InputHeader)[2]),
                  img |-> _process_mermaid_image_simple(input.image_type)]
    /\ UNCHANGED <<doc, pc, story, tocVars, bodyVars, bridgeVars, styles, markdown_parser,
                   parser, mmdc_available, result, exc, input>>

SpecScale == InitScale /\ [][ComputeSize]_vars

(***************************************************************************)
(* The TOC builders applied alone to texts of heading lines                *)
(***************************************************************************)

\* The largest number of lines of a text of heading lines
MaxHeadings == 2

HeadingLines ==
    {<<"#"," ","T","e","c","h","n","i","c","a","l"," ","D","e","s","i","g","n"," ","D","o","c","u","m","e","n","t">>,
     <<"#","#"," ","T","e","c","h","n","i","c","a","l"," ","D","e","s","i","g","n"," ","D","o","c","u","m","e","n","t">>,
     <<"#"," ","M","y"," ","T","I","T","L","E">>,
     <<"#","#","#","#","#","#"," ","d","e","s","i","g","n">>,
     <<"#"," ","O","v","e","r","v","i","e","w">>,
     <<"#","#"," ","P","a","r","t","s">>,
     <<"t","e","x","t">>}

HeadingTexts == TextsOf(HeadingLines, MaxHeadings)

InitToc ==
    /\ InitCommon
    /\ doc = [r \in Requests |-> PlainDoc]
    /\ pc = [r \in Requests |-> "idle"]
    /\ mmdc_available = TRUE
    /\ input \in HeadingTexts
    /\ output = <<>>

\* generate_toc_markdown and _create_dynamic_toc on the text
BuildToc ==
    /\ output = <<>>
    /\ output' = [headings |-> extract_headings(input),
                  markdown |-> generate_toc_markdown(input),
                  page |-> _create_dynamic_toc(input)]
    /\ UNCHANGED <<doc, pc, story, tocVars, bodyVars, bridgeVars, styles, markdown_parser,
                   parser, mmdc_available, result, exc, input>>

SpecToc == InitToc /\ [][BuildToc]_vars

(***************************************************************************)
(* _create_heading_id applied alone to titles                              *)
(***************************************************************************)

\* The largest number of pieces of a title
MaxPieces == 3

\* The pieces the titles are made of: a word, letters of both cases, a digit,
\* white space, a hyphen, punctuation, an underscore, a character outside
\* ASCII
TitlePieces ==
    {<<"H","e","a","d","i","n","g">>,
     <<"a">>,
     <<"Z">>,
     <<"7">>,
     <<" ">>,
     <<"-">>,
     <<"!">>,
     <<"_">>,
     <<"\t">>,
     <<BULLET>>}

RECURSIVE Concat(_)
Concat(parts) == IF parts = <<>> THEN <<>> ELSE Head(parts) \o Concat(Tail(parts))

Titles == {Concat(parts) : parts \in UNION {[1..k -> TitlePieces] : k \in 0..MaxPieces}}

InitSlug ==
    /\ InitCommon
    /\ doc = [r \in Requests |-> PlainDoc]
    /\ pc = [r \in Requests |-> "idle"]
    /\ mmdc_available = TRUE
    /\ input \in Titles
    /\ output = <<>>

\* _create_heading_id on the title, called twice
MakeSlug ==
    /\ output = <<>>
    /\ output' = [first |-> _create_heading_id(input), second |-> _create_heading_id(input)]
    /\ UNCHANGED <<doc, pc, story, tocVars, bodyVars, bridgeVars, styles, markdown_parser,
                   parser, mmdc_available, result, exc, input>>

SpecSlug == InitSlug /\ [][MakeSlug]_vars

(***************************************************************************)
(* Body composition applied alone to texts with malformed block syntax     *)
(***************************************************************************)

\* The largest number of lines of a text of malformed blocks
MaxBlockLines == 3

\* The lines the texts are made of: an opening code fence, a closing code
\* fence, a line of code, a table row, a separator line of one column (which
\* is no table row), a line of plain text, an empty line
BlockLines ==
    {<<BT,BT,BT,"p","y","t","h","o","n">>,
     <<BT,BT,BT>>,
     <<"c","o","d","e">>,
     <<"|"," ","a"," ","|"," ","b"," ","|">>,
     <<"|","-","-","-","|">>,
     <<"t","e","x","t">>,
     <<>>}

BlockTexts == TextsOf(BlockLines, MaxBlockLines)

InitBlocks ==
    /\ InitCommon
    /\ doc = [r \in Requests |-> PlainDoc]
    /\ pc = [r \in Requests |-> "idle"]
    /\ mmdc_available = TRUE
    /\ input \in BlockTexts
    /\ output = <<>>

\* clean_markdown_for_pdf on the text, the diagram sources
\* _process_markdown_content takes from it (the values of
\* mermaid_replacements), and the body it composes with every diagram failing
ComposeBlocks ==
    /\ output = <<>>
    /\ output' = [cleaned |-> clean_markdown_for_pdf(input),
                  sources |-> PrepareContent(input).mermaid,
                  body |-> _process_markdown_content(input, NoImages)]
    /\ UNCHANGED <<doc, pc, story, tocVars, bodyVars, bridgeVars, styles, markdown_parser,
                   parser, mmdc_available, result, exc, input>>

SpecBlocks == InitBlocks /\ [][ComposeBlocks]_vars

(***************************************************************************)
(* _create_dynamic_toc applied alone to longer lists of headings           *)
(***************************************************************************)

\* The largest number of lines of a list of headings
MaxTocLines == 4

\* The heading lines of the lists: a main title that is left out, headings
\* of level 1 and 2 with short titles, headings of level 3 and 6 with titles
\* of more than 45 characters
TocPageLines ==
    {<<"#"," ","M","y"," ","T","I","T","L","E">>,
     <<"#"," ","O","v","e","r","v","i","e","w">>,
     <<"#","#"," ","P","a","r","t","s">>,
     <<"#","#","#"," ">> \o Repeat("y", 46),
     <<"#","#","#","#","#","#"," ">> \o Repeat("x", 50)}

InitTocPages ==
    /\ InitCommon
    /\ doc = [r \in Requests |-> PlainDoc]
    /\ pc = [r \in Requests |-> "idle"]
    /\ mmdc_available = TRUE
    /\ input \in TextsOf(TocPageLines, MaxTocLines)
    /\ output = <<>>

SpecTocPages == InitTocPages /\ [][BuildToc]_vars

(***************************************************************************)
(* _process_markdown_content applied alone to texts made of whole blocks   *)
(***************************************************************************)

\* The largest number of blocks of a text
MaxBodyPieces == 2

\* The blocks the texts are made of: two lists with a nested bullet, a
\* diagram, a diagram whose source holds inline markup, a table, a line of
\* text, and the literal tokens the code uses as placeholders
BodyPieces ==
    {<<"-"," ","a",NL," "," ","-"," ","b">>,
     <<"*"," ","c",NL," "," ","*"," ","d">>,
     <<BT,BT,BT,"m","e","r","m","a","i","d",NL,"A","-","-",">","B",NL,BT,BT,BT>>,
     <<BT,BT,BT,"m","e","r","m","a","i","d",NL,"A","-","-",">","|","*","*","x","*","*","|","B",BT,"y",BT,NL,BT,BT,BT>>,
     <<"|"," ","a"," ","|"," ","b"," ","|",NL,"|","-","-","-","|","-","-","-","|",NL,"|"," ","c"," ","|"," ","d"," ","|">>,
     <<"t","e","x","t">>,
     <<"[","T","A","B","L","E","_","0","]">>,
     <<"[","M","E","R","M","A","I","D","_","D","I","A","G","R","A","M","_","0","]">>}

\* The blocks joined by a line break or by a blank line
RECURSIVE JoinedBy(_, _)
JoinedBy(pieces, seps) ==
    IF Len(pieces) = 0 THEN <<>>
    ELSE IF Len(pieces) = 1 THEN pieces[1]
    ELSE pieces[1] \o seps[1] \o JoinedBy(Tail(pieces), Tail(seps))

InitBody ==
    /\ InitCommon
    /\ doc = [r \in Requests |-> PlainDoc]
    /\ pc = [r \in Requests |-> "idle"]
    /\ mmdc_available = TRUE
    /\ input \in {JoinedBy(ps, ss) : <<ps, ss>> \in
                     UNION {[1..k -> BodyPieces] \X [1..k -> {<<NL>>, <<NL, NL>>}] :
                            k \in 0..MaxBodyPieces}}
    /\ output = <<>>

SpecBody == InitBody /\ [][ComposeBlocks]_vars

(***************************************************************************)
(* Properties                                                              *)
(***************************************************************************)

\* The positions of a request
Positions ==
    {"idle", "start", "toc_parser", "toc_parser_new", "toc_begin", "toc_loop", "toc_add",
     "body_parser", "body_begin", "body_loop", "br_start", "br_wait1", "br_cfg_open",
     "br_cfg_dump", "br_wait2", "br_wait3", "br_return", "build", "done", "raised"}

\* A request that has begun and has not ended
Running(r) == pc[r] \notin {"idle", "done", "raised"}

\* A step of a running request, whatever it does: its position or one of
\* its loop indices changes.  Every step of Next is one (StepsAdvance), and a
\* running request can always take one, so that this action is enabled
\* exactly when Next is.
Advance(r) ==
    /\ Running(r)
    /\ \E p \in Positions : pc' = [pc EXCEPT ![r] = p]
    /\ \E i \in 0..(Len(doc[r]) + 1) : toc_i' = [toc_i EXCEPT ![r] = i]
    /\ \E k \in 0..(Len(doc[r]) + 1) : sec_k' = [sec_k EXCEPT ![r] = k]

\* One request served alone, the thread of a request that can take a step
\* taking it in the end: the interpreter goes on with the request, and every
\* call of the renderer ends, by exiting or by its timeout
SpecSeqFair == SpecSeq /\ WF_<<pc, toc_i, sec_k>>(\E r \in Requests : Advance(r))

\* Every step of a request moves it
StepsAdvance ==
    [][/\ <<pc, toc_i, sec_k>>' # <<pc, toc_i, sec_k>>
       /\ \E r \in Requests : Running(r) /\ pc'[r] \in Positions]_vars

\* The requests whose _process_markdown_content has returned
BodyDone(r) == pc[r] \in {"build", "done", "raised"} /\ exc[r] # "toc"

\* The blocks section k of request r added to the body, once the section
\* is composed (sec_k[r] > k)
SectionBlocks(r, k) ==
    SubSeq(body[r].story, sec_start[r][k] + 1,
           IF k < Len(sec_start[r]) THEN sec_start[r][k + 1] ELSE Len(body[r].story))

AllNonZero == <<"nonzero", "nonzero", "nonzero">>

\* The textual fallback block of a diagram source
FallbackBlock(source) ==
    [type |-> "Paragraph",
     text |-> <<"[","M","e","r","m","a","i","d"," ","D","i","a","g","r","a","m","]",NL>> \o SubSeq(source, 1, IF Len(source) < 200 THEN Len(source) ELSE 200) \o <<".", ".", ".">>,
     style |-> "CodeBlock"]

\* The source of the diagram that section k of request r stands for
SourceOf(r, k) == prep[r].mermaid[MermaidIndex(prep[r].sections[k], Len(prep[r].mermaid))]

\* C1: when the renderer exits non-zero on all three attempts for a diagram,
\* the body holds at the diagram's place the fallback block (code-block
\* style, '[Mermaid Diagram]' and the first 200 characters of the source),
\* no exception of the body reaches the caller of generate_pdf, and every
\* section after the diagram is still composed into the body that
\* generate_pdf lays out.
C1_FallbackOnThreeFailures ==
    \A r \in Requests :
        \A c \in 1..Len(calls[r]) :
            calls[r][c].exits = AllNonZero =>
                LET k == calls[r][c].section
                IN  /\ calls[r][c].img = None
                    /\ SectionBlocks(r, k) =
                          <<[type |-> "Spacer", size |-> 12], FallbackBlock(SourceOf(r, k)),
                            [type |-> "Spacer", size |-> 12]>>
                    /\ pc[r] = "raised" => exc[r] = "build"
                    /\ BodyDone(r) =>
                          /\ Len(sec_start[r]) = Len(prep[r].sections)
                          /\ \A j \in (k + 1)..Len(prep[r].sections) :
                                IF DiagramOf(prep[r].sections[j], prep[r]) = 0
                                THEN SectionBlocks(r, j) =
                                        _process_markdown_lines(Split(prep[r].sections[j], <<NL>>))
                                ELSE SectionBlocks(r, j) # <<>>
                          /\ SubSeq(story[r], Len(story[r]) - Len(body[r].story) + 1,
                                    Len(story[r])) = body[r].story

\* A document is built whose diagram, longer than the fallback shows, failed
\* with three non-zero exits
C1_Witness ==
    \E r \in Requests :
        /\ pc[r] = "done"
        /\ \E c \in 1..Len(calls[r]) :
              /\ calls[r][c].exits = AllNonZero
              /\ Len(SourceOf(r, calls[r][c].section)) > 200
              /\ calls[r][c].section < Len(prep[r].sections)

\* The blocks of a story that are of the given type
BlocksOf(blocks, type) == SelectSeq(blocks, LAMBDA b : b.type = type)

\* C2: for the end-to-end example the pipeline yields exactly two headings
\* (Title at level 1, left out of the TOC; Section A at level 2, in the TOC),
\* exactly one table with headers [H1, H2] and the single row [a, b], emitted
\* as a Table block, and a paragraph whose text contains <i>italic</i> and
\* <b>bold</b>.
C2_EndToEndExample ==
    \A r \in Requests :
        (doc[r] = EndToEndDoc /\ BodyDone(r)) =>
            /\ Len(headings[r]) = 2
            /\ headings[r][1].level = 1 /\ headings[r][1].title = <<"T","i","t","l","e">>
            /\ headings[r][2].level = 2 /\ headings[r][2].title = <<"S","e","c","t","i","o","n"," ","A">>
            /\ LET entries == BlocksOf(SubSeq(toc_elements[r], 2, Len(toc_elements[r])),
                                       "Paragraph")
               IN  /\ Len(entries) = 1
                   /\ Contains(entries[1].text, <<"S","e","c","t","i","o","n"," ","A">>)
                   /\ ~Contains(entries[1].text, <<"T","i","t","l","e">>)
            /\ prep[r].tables = <<[headers |-> <<<<"H","1">>, <<"H","2">>>>,
                                   rows |-> <<<<<<"a">>, <<"b">>>>>>]>>
            /\ BlocksOf(body[r].story, "Table") =
                  <<[type |-> "Table",
                     data |-> <<<<<<"H","1">>, <<"H","2">>>>, <<<<"a">>, <<"b">>>>>>]>>
            /\ \E i \in 1..Len(body[r].story) :
                  /\ body[r].story[i].type = "Paragraph"
                  /\ Contains(body[r].story[i].text, <<"<","i",">","i","t","a","l","i","c","<","/","i",">">>)
                  /\ Contains(body[r].story[i].text, <<"<","b",">","b","o","l","d","<","/","b",">">>)
            /\ SubSeq(story[r], Len(story[r]) - Len(body[r].story) + 1, Len(story[r]))
                  = body[r].story

\* The end-to-end example is built
C2_Witness ==
    \E r \in Requests : doc[r] = EndToEndDoc /\ pc[r] = "done" /\ result[r] = "pdf"

\* C3: when a step of generate_pdf raises, generate_pdf raises to its caller
\* and returns nothing; bytes are returned only by a call no step of which
\* raised.
C3_FailurePropagates ==
    \A r \in Requests :
        /\ pc[r] = "raised" => (result[r] = NoResult /\ exc[r] # "none")
        /\ exc[r] # "none" => (pc[r] = "raised" /\ result[r] = NoResult)
        /\ result[r] # NoResult => (pc[r] = "done" /\ exc[r] = "none")

\* One request failed while its TOC was built, the other in the final layout
C3_Witness ==
    \E r, q \in Requests :
        /\ pc[r] = "raised" /\ exc[r] = "toc"
        /\ pc[q] = "raised" /\ exc[q] = "build"

\* C4: whatever the renderer does on each attempt (zero exit, non-zero
\* exit, timeout, missing, empty or unrecognised output, a failure to write
\* the scratch or configuration file, the renderer not installed),
\* _generate_mermaid_image returns an image or None; no exception leaves it.
C4_BridgeNeverRaises ==
    \A r \in Requests :
        /\ diagram_img[r] # Raised
        /\ diagram_img[r] = None \/ diagram_img[r].type = "Image"
        /\ exc[r] # "body"
        /\ \A c \in 1..Len(calls[r]) :
              calls[r][c].img = None \/ calls[r][c].img.type = "Image"

\* A call has returned after its second attempt timed out
C4_Witness ==
    \E r \in Requests :
        /\ pc[r] = "br_return"
        /\ exits[r] = <<"nonzero", "timeout">>
        /\ diagram_img[r] = None

\* The states of generate_pdf in which no call of the bridge is under way
BridgeIdle(r) == pc[r] \notin {"br_start", "br_wait1", "br_cfg_open", "br_cfg_dump",
                               "br_wait2", "br_wait3"}

\* C5: once the bridge has returned, on whatever path, none of its scratch
\* files exists: not the diagram source file, not the raster output file,
\* not the temporary renderer configuration.
C5_NoScratchFileLeft ==
    (\A r \in Requests : BridgeIdle(r)) => \A p \in Paths : fs[p] = "absent"

\* The requests whose renderer process is running
Pending(r) == pc[r] \in {"br_wait1", "br_wait2", "br_wait3"}

\* C6: with two documents generated concurrently, the scratch files of a
\* pending renderer process (the diagram source file, the raster output
\* file, and for the second attempt the renderer configuration) belong to
\* its invocation alone: no step of the other request overwrites or deletes
\* one of them.
C6_ScratchFilesPrivate ==
    [][\A r \in Requests :
          (Pending(r) /\ pc'[r] = pc[r]) =>
              /\ fs'[MmdPath(r)] = fs[MmdPath(r)]
              /\ fs'[PngPath(r)] = fs[PngPath(r)]
              /\ pc[r] = "br_wait2" => fs'[CfgPath] = fs[CfgPath]]_vars

\* The title page, the TOC and the page breaks of generate_pdf run alone
FrontPages(content) ==
    _create_title_page \o <<PageBreak>> \o _create_dynamic_toc(content) \o <<PageBreak>>

\* C7: two documents generated in parallel share no mutable state: neither
\* the check-then-add of the TOC level styles nor the lazy creation of the
\* global parser makes a call fail, and each call composes the pages it
\* composes when it runs alone.
C7_ParallelAsAlone ==
    \A r \in Requests :
        /\ exc[r] # "toc"
        /\ pc[r] \in {"body_parser", "body_parser_new", "body_begin", "body_loop", "build", "done"}
              => SubSeq(story[r], 1, Len(FrontPages(doc[r]))) = FrontPages(doc[r])

\* The lines of the text handed to the table functions
InputLines == Split(input, <<NL>>)

\* The lines of a table that are rows and no separators
DataLine(line) == _is_table_row(Strip(line)) /\ ~_is_table_separator(Strip(line))

\* The text is one table: every line is a table row, two of them at least
\* are no separators
OneTable ==
    /\ \A i \in 1..Len(InputLines) : _is_table_row(Strip(InputLines[i]))
    /\ Len(SelectSeq(InputLines, DataLine)) >= 2

\* The cells of a line, padded with empty cells or cut to n cells
CellsOf(line, n) ==
    [j \in 1..n |-> IF j <= Len(_parse_table_row(Strip(line)))
                    THEN _parse_table_row(Strip(line))[j] ELSE <<>>]

\* The rows of the Table block of a text that is one table
ExpectedTable ==
    [k \in 1..Len(SelectSeq(InputLines, DataLine)) |->
        CellsOf(SelectSeq(InputLines, DataLine)[k],
                Len(_parse_table_row(Strip(SelectSeq(InputLines, DataLine)[1]))))]

\* C8: in every Table block every data row has as many cells as the header
\* row; a row with fewer cells than the header is padded with empty cells at
\* its end, a row with more cells is cut to the header's length, and the
\* cells kept are unchanged and in order.
C8_RowsMatchHeader ==
    output # <<>> =>
        /\ \A i \in 1..Len(output.body) :
              output.body[i].type = "Table" =>
                  \A k \in 1..Len(output.body[i].data) :
                      Len(output.body[i].data[k]) = Len(output.body[i].data[1])
        /\ OneTable =>
              output.body = <<[type |-> "Spacer", size |-> 12],
                              [type |-> "Table", data |-> ExpectedTable],
                              [type |-> "Spacer", size |-> 12]>>

\* A table of a header of three cells, a row of two and a row of four cells
\* is emitted
C8_Witness ==
    /\ output # <<>>
    /\ input = Join(<<<<"|"," ","a"," ","|"," ","b"," ","|"," ","c"," ","|">>,
                      <<"|"," ","d"," ","|"," ","e"," ","|">>,
                      <<"|"," ","f"," ","|"," ","g"," ","|"," ","h"," ","|"," ","i"," ","|">>>>, <<NL>>)
    /\ Len(BlocksOf(output.body, "Table")) = 1

\* Every row of the table has the header's number of cells
Consistent(T) == \A k \in 1..Len(T.rows) : Len(T.rows[k]) = Len(T.headers)

\* C9: for every table T that parse_markdown_tables returns and whose rows
\* all have the header's number of cells, parsing the text that
\* _reconstruct_table_text makes of T returns T and nothing else; this
\* includes tables whose header or first data row holds only dashes or only
\* empty cells.
C9_TableRoundTrip ==
    output # <<>> =>
        \A t \in 1..Len(output.tables) :
            Consistent(output.tables[t]) =>
                parse_markdown_tables(_reconstruct_table_text(output.tables[t]))
                    = <<output.tables[t]>>

\* A table whose first data row holds only dashes was parsed
C9_Witness ==
    /\ output # <<>>
    /\ \E t \in 1..Len(output.tables) :
          /\ Consistent(output.tables[t])
          /\ output.tables[t].rows[1] = <<<<"-">>, <<"-">>>>
          /\ output.tables[t].headers = <<<<"d">>, <<"e">>>>

\* The headings that both TOC builders leave out
Generic(h) ==
    /\ h.level = 1
    /\ \/ Contains(Lower(h.title), <<"t","e","c","h","n","i","c","a","l">>)
       \/ Contains(Lower(h.title), <<"d","e","s","i","g","n">>)
       \/ Contains(Lower(h.title), <<"d","o","c","u","m","e","n","t">>)
       \/ Contains(Lower(h.title), <<"t","i","t","l","e">>)

\* The headings both TOC builders list, in document order
Listed == SelectSeq(output.headings, LAMBDA h : ~Generic(h))

\* The heading lines of the model a TOC lists
ListedLines ==
    {<<"#","#"," ","T","e","c","h","n","i","c","a","l"," ","D","e","s","i","g","n"," ","D","o","c","u","m","e","n","t">>,
     <<"#","#","#","#","#","#"," ","d","e","s","i","g","n">>,
     <<"#"," ","O","v","e","r","v","i","e","w">>,
     <<"#","#"," ","P","a","r","t","s">>}

\* The lines of the markdown TOC after its title, and the entries of the
\* paginated TOC after its title
MarkdownEntries ==
    SelectSeq(Split(output.markdown, <<NL>>), LAMBDA l : Contains(l, <<"-", " ", "[">>))

PageEntries == BlocksOf(SubSeq(output.page, 2, Len(output.page)), "Paragraph")

\* C10: both TOC builders leave a heading out if and only if its level is 1
\* and its lowercased title contains 'technical', 'design', 'document' or
\* 'title'; a heading of level 2 to 6 titled 'Technical Design Document' is
\* listed; the listed headings are in document order.
C10_TocOmitsMainTitleOnly ==
    (output # <<>> /\ output.headings # <<>>) =>
        /\ Len(Listed) = Len(SelectSeq(Split(input, <<NL>>), LAMBDA l : l \in ListedLines))
        /\ Len(MarkdownEntries) = Len(Listed)
        /\ \A k \in 1..Len(Listed) :
              MarkdownEntries[k] =
                  Repeat(" ", 2 * (Listed[k].level - 1)) \o <<"-", " ", "[">> \o Listed[k].title
                  \o <<"]", "(", "#">> \o Listed[k].id \o <<")">>
        /\ Len(PageEntries) = Len(Listed)
        /\ \A k \in 1..Len(Listed) :
              StartsWith(PageEntries[k].text,
                         Repeat(" ", 2 * (Listed[k].level - 1)) \o Listed[k].title
                         \o <<" ", ".">>)

\* A text with the title 'Technical Design Document' at level 1 and at level 2
C10_Witness ==
    /\ output # <<>>
    /\ input = <<"#"," ","T","e","c","h","n","i","c","a","l"," ","D","e","s","i","g","n"," ","D","o","c","u","m","e","n","t",NL,"#","#"," ","T","e","c","h","n","i","c","a","l"," ","D","e","s","i","g","n"," ","D","o","c","u","m","e","n","t">>
    /\ Len(PageEntries) = 1

\* The native size of the raster in points, at 96 pixels per inch
NativeWidth == Frac(output.original[1] * inch, PixelsPerInch)

NativeHeight == Frac(output.original[2] * inch, PixelsPerInch)

\* The native size is below the floor of 3.0 in x 2.0 in
BelowFloor == RLess(NativeWidth, min_width) \/ RLess(NativeHeight, min_height)

\* The display size is not larger than the native size
NotUpscaled ==
    /\ ~RLess(NativeWidth, output.final[1])
    /\ ~RLess(NativeHeight, output.final[2])

\* The display aspect ratio divided by the native aspect ratio
AspectChange ==
    RDiv(RDiv(output.final[1], output.final[2]),
         Frac(output.original[1], output.original[2]))

AspectKept == ~RLess(AspectChange, <<99, 100>>) /\ ~RLess(<<101, 100>>, AspectChange)

\* C11 as stated: the display size is not larger than the native size unless
\* the native size is below the floor; then the display size equals the
\* floor, 3.0 in x 2.0 in, and the aspect ratio is kept within 1%.
C11_DisplayEqualsFloor ==
    output # <<>> =>
        /\ ~BelowFloor => NotUpscaled
        /\ BelowFloor => (output.final = <<min_width, min_height>> /\ AspectKept)

\* C11: the display size is not larger than the native size unless the
\* native size is below the floor of 3.0 in x 2.0 in; then the native size is
\* scaled uniformly (aspect ratio kept within 1%) so that one dimension
\* equals its floor and the other is not below its floor.
C11_DisplayWithinNativeOrAtFloor ==
    output # <<>> =>
        /\ ~BelowFloor => NotUpscaled
        /\ BelowFloor =>
              /\ \/ output.final[1] = min_width /\ ~RLess(output.final[2], min_height)
                 \/ output.final[2] = min_height /\ ~RLess(output.final[1], min_width)
              /\ AspectKept

\* A diagram of 1 in x 10 in is shown at 3 in x 30 in
C11_Witness ==
    /\ output # <<>>
    /\ input = [image_type |-> "png", width |-> 96, height |-> 960, readable |-> TRUE]
    /\ BelowFloor
    /\ output.final = <<<<3 * inch, 1>>, <<30 * inch, 1>>>>

\* The characters of a slug other than the hyphen
SlugAlnum(c) == c \in Digits \/ \E k \in 1..26 : LowerCase[k] = c

\* The letters and digits of a title
TitleAlnum(c) == SlugAlnum(c) \/ \E k \in 1..26 : UpperCase[k] = c

\* The slug is URL-safe: not empty, of a-z, 0-9 and '-' only, with no hyphen
\* at either end and no two hyphens in a row; and both calls return it
WellFormedSlug ==
    /\ output.first = output.second
    /\ output.first # <<>>
    /\ \A i \in 1..Len(output.first) : SlugAlnum(output.first[i]) \/ output.first[i] = "-"
    /\ output.first[1] # "-"
    /\ output.first[Len(output.first)] # "-"
    /\ \A i \in 1..(Len(output.first) - 1) : ~(output.first[i] = "-" /\ output.first[i + 1] = "-")

\* The title sanitizes to the empty string: it holds no letter and no digit
SanitizesToEmpty == SelectSeq(input, TitleAlnum) = <<>>

RowLine(line) == line = <<"|"," ","a"," ","|"," ","b"," ","|">>

\* The lines whose text the body has to show when the text holds at most one
\* table row: the line of code, the plain text, the table row that has no
\* data rows, and the separator line when no table row is near it
PlainLine(line) ==
    \/ line \in {<<"c","o","d","e">>, <<"t","e","x","t">>, <<"|"," ","a"," ","|"," ","b"," ","|">>}
    \/ line = <<"|","-","-","-","|">> /\ SelectSeq(InputLines, RowLine) = <<>>

\* The texts of the Paragraph blocks of the body
ParagraphTexts ==
    [k \in 1..Len(BlocksOf(output.body, "Paragraph")) |->
        BlocksOf(output.body, "Paragraph")[k].text]

\* C13: malformed block syntax loses no text: the lines after an unmatched
\* code fence, a table header row with no data rows, and a separator-looking
\* line that is not inside a table are each emitted as plain Paragraph
\* blocks, in document order.
C13_MalformedKeptAsText ==
    (output # <<>> /\ Len(SelectSeq(InputLines, RowLine)) <= 1) =>
        SelectSeq(ParagraphTexts, PlainLine) = SelectSeq(InputLines, PlainLine)

\* The lines after an unmatched fence and a header row without data rows are
\* emitted as paragraphs
C13_Witness ==
    /\ output # <<>>
    /\ input = Join(<<<<BT,BT,BT,"p","y","t","h","o","n">>, <<"c","o","d","e">>, <<"|"," ","a"," ","|"," ","b"," ","|">>>>, <<NL>>)
    /\ SelectSeq(ParagraphTexts, PlainLine) = <<<<"c","o","d","e">>, <<"|"," ","a"," ","|"," ","b"," ","|">>>>

\* The story is a prefix of the sequence s
StoryWithin(r, s) == Len(story[r]) <= Len(s) /\ story[r] = SubSeq(s, 1, Len(story[r]))

\* C14: for every input, empty text and text without headings included, the
\* blocks handed to the layout engine are the title page, one page break,
\* the TOC page, one page break, then the body; no body block precedes the
\* second page break, and the body holds no page break.
C14_StoryOrder ==
    \A r \in Requests :
        /\ pc[r] \in {"build", "done"} =>
              /\ story[r] = FrontPages(doc[r]) \o body[r].story
              /\ Len(BlocksOf(story[r], "PageBreak")) = 2
              /\ story[r][Len(_create_title_page) + 1] = PageBreak
              /\ story[r][Len(story[r]) - Len(body[r].story)] = PageBreak
        /\ pc[r] \notin {"build", "done", "raised"} => StoryWithin(r, FrontPages(doc[r]))
        /\ BlocksOf(body[r].story, "PageBreak") = <<>>

\* The empty text is handed over as the title page, the placeholder TOC and
\* an empty body
C14_Witness ==
    \E r \in Requests :
        /\ pc[r] = "build"
        /\ doc[r] = EmptyDoc
        /\ body[r].story = <<>>
        /\ story[r] = _create_title_page \o <<PageBreak>> \o _create_toc_placeholder \o <<PageBreak>>

\* The first of the fixed entries of the placeholder TOC
ProjectOverview == <<"1","."," ","P","r","o","j","e","c","t"," ","O","v","e","r","v","i","e","w">>

\* C15: for a text with zero headings both TOC builders emit a placeholder
\* TOC with the fixed illustrative entries and never an empty TOC: the
\* paginated TOC page and the markdown TOC of generate_toc_markdown.
C15_PlaceholderForNoHeadings ==
    (output # <<>> /\ output.headings = <<>>) =>
        /\ Len(PageEntries) = 6
        /\ StartsWith(PageEntries[1].text, ProjectOverview)
        /\ output.markdown # <<>>
        /\ Contains(output.markdown, ProjectOverview)

\* For a text without headings the paginated TOC is the placeholder and the
\* markdown TOC is the empty string
C15_Witness ==
    /\ output # <<>>
    /\ input = <<"t","e","x","t">>
    /\ output.page = _create_toc_placeholder
    /\ output.markdown = <<>>

\* A table-row line: it starts and ends with '|' and has one more '|' inside
RefRow(line) ==
    /\ Len(Strip(line)) >= 3
    /\ Strip(line)[1] = "|"
    /\ Strip(line)[Len(Strip(line))] = "|"
    /\ \E k \in 2..(Len(Strip(line)) - 1) : Strip(line)[k] = "|"

\* A separator line: between its outer pipes every cell holds dashes and
\* colons and nothing else
RefSeparator(line) ==
    /\ Len(Strip(line)) >= 2
    /\ Strip(line)[1] = "|"
    /\ Strip(line)[Len(Strip(line))] = "|"
    /\ \A k \in 2..(Len(Strip(line)) - 1) : Strip(line)[k] \in {"-", ":", "|", " "}
    /\ \A k \in 1..(Len(Strip(line)) - 1) :
          Strip(line)[k] = "|" =>
              \E m \in (k + 1)..(Len(Strip(line)) - 1) :
                  /\ Strip(line)[m] \in {"-", ":"}
                  /\ \A q \in (k + 1)..m : Strip(line)[q] # "|"

\* The index after the run of table-row lines that starts at line j
RefRunEnd(lines, j) ==
    SetMin({k \in j..(Len(lines) + 1) : k > Len(lines) \/ ~RefRow(lines[k])})

\* The first line of the data rows of the run whose header is line i
RefDataStart(lines, i) ==
    IF i + 1 <= Len(lines) /\ RefSeparator(lines[i + 1]) THEN i + 2 ELSE i + 1

\* The tables of the runs from line i on, as C16 describes them
RECURSIVE RefTables(_, _)
RefTables(lines, i) ==
    IF i > Len(lines) THEN <<>>
    ELSE IF ~RefRow(lines[i]) THEN RefTables(lines, i + 1)
    ELSE (IF RefRunEnd(lines, RefDataStart(lines, i)) > RefDataStart(lines, i)
          THEN <<[headers |-> _parse_table_row(Strip(lines[i])),
                  rows |-> [k \in 1..(RefRunEnd(lines, RefDataStart(lines, i))
                                      - RefDataStart(lines, i)) |->
                               _parse_table_row(Strip(lines[RefDataStart(lines, i) + k - 1]))]]>>
          ELSE <<>>)
         \o RefTables(lines, RefRunEnd(lines, RefDataStart(lines, i)))

\* C16: parse_markdown_tables returns one table per maximal run that starts
\* at a table-row line: the first line gives the headers, a separator line
\* directly after it is skipped and not stored, the following consecutive
\* table-row lines are the data rows in order, and a run with a header but
\* no data row yields no table.
C16_TablePerRun ==
    output # <<>> => output.tables = RefTables(InputLines, 1)

\* A header, a skipped separator and two data rows, the second made of dashes
C16_Witness ==
    /\ output # <<>>
    /\ input = Join(<<<<"|"," ","d"," ","|"," ","e"," ","|">>,
                      <<"|"," ","-"," ","|"," ","-"," ","|">>,
                      <<"|"," ","-"," ","|"," ","-"," ","|">>>>, <<NL>>)
    /\ output.tables = <<[headers |-> <<<<"d">>, <<"e">>>>,
                          rows |-> <<<<<<"-">>, <<"-">>>>>>]>>

\* The number of the attempt whose renderer process is running
AttemptNo(r) == IF pc[r] = "br_wait1" THEN 1 ELSE IF pc[r] = "br_wait2" THEN 2 ELSE 3

\* The attempts of the current call started so far
Started(r) == Len(exits[r]) + (IF Pending(r) THEN 1 ELSE 0)

\* The steps of a call between its first attempt and its return
AfterFirst(r) == pc[r] \in {"br_cfg_open", "br_cfg_dump", "br_wait2", "br_wait3"}

\* The attempt that has just ended (in the primed state) ended in failure: a
\* non-zero exit, or exit zero with the output file missing or empty
JustFailed(r) ==
    LET e == exits'[r][Len(exits'[r])]
    IN  \/ e = "nonzero"
        \/ e = "zero" /\ fs'[PngPath(r)] \in {"absent", "empty"}

\* The attempts run in the order 1, 2, 3 and there are never more than three
AttemptsNumbered(r) ==
    /\ Started(r) <= 3
    /\ Pending(r) => Len(exits[r]) = AttemptNo(r) - 1
    /\ pc[r] \in {"br_cfg_open", "br_cfg_dump"} => Len(exits[r]) = 1

\* What a step may do to the attempts of a request
AttemptStep(r) ==
    /\ (Pending(r)' /\ pc'[r] # pc[r]) =>
          \/ pc[r] = "br_start" /\ pc'[r] = "br_wait1" /\ exits'[r] = <<>>
          \/ pc[r] = "br_cfg_dump" /\ pc'[r] = "br_wait2" /\ exits[r] = <<"nonzero">>
          \/ pc[r] = "br_wait2" /\ pc'[r] = "br_wait3" /\ JustFailed(r)
    /\ (pc[r] = "br_wait1" /\ pc'[r] = "br_cfg_open") => JustFailed(r)
    /\ (Pending(r) /\ pc'[r] # pc[r] /\ ~JustFailed(r)) => pc'[r] = "br_return"
    /\ pc[r] = "br_return" => ~AfterFirst(r)' /\ pc'[r] # "br_wait1" /\ exits'[r] = exits[r]

\* C17: for one diagram the renderer is invoked at most three times, in the
\* order primary, secondary, engine defaults; an attempt after the first is
\* started only after the one before it ended in failure, and none is started
\* after an attempt succeeded or after the bridge reported failure.
C17_AttemptsInOrder ==
    /\ [](\A r \in Requests : AttemptsNumbered(r))
    /\ [][\A r \in Requests : AttemptStep(r)]_vars

\* The third attempt has produced the image after the second ended with exit
\* zero and no output
C17_Witness ==
    \E r \in Requests :
        /\ pc[r] = "br_return"
        /\ exits[r] = <<"nonzero", "zero", "zero">>
        /\ diagram_img[r] # None

\* The step ends attempt n of request r with outcome o
EndsAs(r, n, o) ==
    /\ Pending(r) /\ AttemptNo(r) = n
    /\ exits'[r] = Append(exits[r], o.exit)
    /\ pc'[r] = AfterAttempt(n, o, fs[PngPath(r)]).next
    /\ diagram_img'[r] = AfterAttempt(n, o, fs[PngPath(r)]).img
    /\ fs'[PngPath(r)] = AfterAttempt(n, o, fs[PngPath(r)]).png

\* An attempt with outcome o, the output path holding png_before when it
\* started, ended with a non-zero exit, or with exit zero and the output
\* file missing or empty
FailedOutcome(o, png_before) ==
    \/ o.exit = "nonzero"
    \/ /\ o.exit = "zero"
       /\ (IF o.out = "untouched" THEN png_before ELSE o.out) \in {"absent", "empty"}

\* What follows the end of attempt n of request r when it failed
FailedAttemptGoesTo(r, n, next) ==
    \A o \in Outcomes :
        (EndsAs(r, n, o) /\ FailedOutcome(o, fs[PngPath(r)])) => pc'[r] = next

\* C18: a primary attempt that ends with a non-zero exit, or with exit zero
\* and a missing or empty output file, is followed by the secondary attempt
\* (its configuration is written next) and not by the return; a secondary
\* attempt that ends in either way is followed by the third attempt.
C18_FailureIsRetried ==
    [][\A r \in Requests :
          /\ FailedAttemptGoesTo(r, 1, "br_cfg_open")
          /\ FailedAttemptGoesTo(r, 2, "br_wait3")]_vars

\* The part of C18 about the secondary attempt
C18_SecondaryIsRetried ==
    [][\A r \in Requests : FailedAttemptGoesTo(r, 2, "br_wait3")]_vars

\* The part of C18 about a primary attempt with a non-zero exit
C18_NonZeroPrimaryIsRetried ==
    [][\A r \in Requests :
          \A o \in Outcomes :
              (EndsAs(r, 1, o) /\ o.exit = "nonzero") => pc'[r] = "br_cfg_open"]_vars

\* The call has returned None after a single attempt that ended with exit
\* zero and an empty output file
C18_Witness ==
    \E r \in Requests :
        /\ pc[r] = "br_return"
        /\ exits[r] = <<"zero">>
        /\ diagram_img[r] = None
        /\ fs[PngPath(r)] = "empty"

\* The steps of a call in which an attempt is running or being prepared
InAttempts(r) == Pending(r) \/ pc[r] \in {"br_cfg_open", "br_cfg_dump"}

\* An attempt of the current call that timed out is its last one, and the
\* call is over
TimeoutIsLast(r) ==
    \A k \in 1..Len(exits[r]) :
        exits[r][k] = "timeout" => k = Len(exits[r]) /\ ~InAttempts(r)

\* A call one of whose attempts timed out ended with that attempt and
\* returned None, and the caller put the fallback block at the diagram's
\* place
TimeoutGivesFallback(r, c) ==
    LET e == calls[r][c].exits
        k == calls[r][c].section
    IN  (\E j \in 1..Len(e) : e[j] = "timeout") =>
            /\ e[Len(e)] = "timeout"
            /\ \A j \in 1..(Len(e) - 1) : e[j] # "timeout"
            /\ calls[r][c].img = None
            /\ SectionBlocks(r, k) =
                  <<[type |-> "Spacer", size |-> 12], FallbackBlock(SourceOf(r, k)),
                    [type |-> "Spacer", size |-> 12]>>

\* C19: when an attempt (first, second or third) exceeds its timeout, the
\* bridge returns None at once, without a further attempt, and the caller
\* emits the textual fallback block for the diagram.
C19_TimeoutEndsCall ==
    /\ [](\A r \in Requests :
            /\ TimeoutIsLast(r)
            /\ \A c \in 1..Len(calls[r]) : TimeoutGivesFallback(r, c))
    /\ [][\A r \in Requests : \A o \in Outcomes :
             (EndsAs(r, AttemptNo(r), o) /\ o.exit = "timeout") =>
                 pc'[r] = "br_return" /\ diagram_img'[r] = None]_vars

\* A document with two diagrams is built: the first attempt for the one
\* timed out, the third attempt for the other
C19_Witness ==
    \E r \in Requests :
        /\ pc[r] = "done"
        /\ Len(calls[r]) = 2
        /\ calls[r][1].exits = <<"timeout">>
        /\ calls[r][2].exits = <<"nonzero", "zero", "timeout">>

\* The formats imghdr.what is asked for
RasterFormats == {"png", "jpeg", "gif"}

\* The step ends an attempt of request r with exit zero, the output file
\* present with a size above zero and of a raster format, and returns the
\* image built from it
SucceedsWithRaster(r) ==
    \E o \in Outcomes :
        /\ EndsAs(r, AttemptNo(r), o)
        /\ o.exit = "zero"
        /\ (IF o.out = "untouched" THEN fs[PngPath(r)] ELSE o.out) \in RasterFormats
        /\ diagram_img'[r] = Image(IF o.out = "untouched" THEN fs[PngPath(r)] ELSE o.out)
        /\ pc'[r] = "br_return"

\* The Image blocks of the body of request r
BodyImages(r) == {body[r].story[i] : i \in {j \in 1..Len(body[r].story) :
                                               body[r].story[j].type = "Image"}}

\* Every image a call returned is of a raster format and comes from a call
\* whose last attempt exited with zero; every Image block of the body is the
\* image of such a call
ImagesFromSuccess(r) ==
    /\ \A c \in 1..Len(calls[r]) :
          calls[r][c].img # None =>
              /\ calls[r][c].exits # <<>>
              /\ calls[r][c].exits[Len(calls[r][c].exits)] = "zero"
              /\ \E k \in RasterFormats : calls[r][c].img = Image(k)
    /\ \A b \in BodyImages(r) : \E c \in 1..Len(calls[r]) : calls[r][c].img = b

\* C20: an Image block is produced for a diagram only if an attempt exited
\* with status zero, its output file existed with a size above zero, and the
\* file was of a raster format (PNG, JPEG, GIF); this holds for the first,
\* the second and the third attempt alike.
C20_ImageOnlyFromValidRaster ==
    /\ [](\A r \in Requests : ImagesFromSuccess(r))
    /\ [][\A r \in Requests :
             (/\ diagram_img'[r] # None
              /\ diagram_img'[r] # diagram_img[r] \/ (Pending(r) /\ pc'[r] # pc[r]))
                 => SucceedsWithRaster(r)]_vars

\* A document is built with the image of a diagram whose third attempt
\* wrote a GIF
C20_Witness ==
    \E r \in Requests :
        /\ pc[r] = "done"
        /\ \E c \in 1..Len(calls[r]) :
              /\ calls[r][c].exits = <<"nonzero", "nonzero", "zero">>
              /\ calls[r][c].img = Image("gif")
              /\ Image("gif") \in BodyImages(r)

\* The raster is a PNG whose header does not yield width and height
HeaderUnreadable == input.image_type = "png" /\ ~input.readable

\* C21: when the raster file cannot be decoded (here: a PNG whose header
\* does not yield width and height), the bridge reports failure as for a
\* render failure: no Image with assumed dimensions is built.
C21_UndecodableGivesNoImage ==
    (output # <<>> /\ HeaderUnreadable) => output.img = None

\* The part of C21 about a format that is not recognised: a call whose
\* attempt left a file of an unknown format returned None and the caller
\* emitted the fallback block
C21_UnrecognisedGivesFallback ==
    [][\A r \in Requests : \A o \in Outcomes :
          (/\ EndsAs(r, AttemptNo(r), o)
           /\ o.exit = "zero"
           /\ (IF o.out = "untouched" THEN fs[PngPath(r)] ELSE o.out) = "other")
              => pc'[r] = "br_return" /\ diagram_img'[r] = None]_vars

\* An Image of 3.0 in x 2.25 in is built from the assumed 800 x 600 pixels
\* for a PNG of 48 x 576 pixels whose header cannot be read
C21_Witness ==
    /\ output # <<>>
    /\ input = [image_type |-> "png", width |-> 48, height |-> 576, readable |-> FALSE]
    /\ output.img = Image("png")
    /\ output.original = DefaultDimensions
    /\ output.final = <<Frac(3 * inch, 1), Frac(9 * inch, 4)>>

\* min(maxWidth / nativeWidth, maxHeight / nativeHeight, 1), with the native
\* size and the limits of 6.0 in and 4.5 in in the same unit
ClaimedScale ==
    RMin(RMin(RDiv(max_width_inches, NativeWidth), RDiv(max_height_inches, NativeHeight)),
         <<1, 1>>)

\* The native size multiplied by that scale
ClaimedSize == <<RMul(NativeWidth, ClaimedScale), RMul(NativeHeight, ClaimedScale)>>

\* That size is not below the floor of 3.0 in x 2.0 in
ClaimedSizeAboveFloor ==
    ~RLess(ClaimedSize[1], min_width) /\ ~RLess(ClaimedSize[2], min_height)

\* C22: the display size is the native size (pixels at 96 per inch)
\* multiplied by min(maxWidth/nativeWidth, maxHeight/nativeHeight, 1) with
\* maxWidth = 6.0 in and maxHeight = 4.5 in, hence at most 6.0 in wide and
\* 4.5 in high, wherever the floor of 3.0 in x 2.0 in does not come in.
C22_DisplayIsScaledNative ==
    (output # <<>> /\ ClaimedSizeAboveFloor) =>
        /\ output.final = ClaimedSize
        /\ ~RLess(max_width_inches, output.final[1])
        /\ ~RLess(max_height_inches, output.final[2])

\* A diagram of 1200 x 900 pixels (12.5 in x 9.375 in), to be shown at
\* 6.0 in x 4.5 in, is shown at 3.0 in x 2.25 in
C22_Witness ==
    /\ output # <<>>
    /\ input = [image_type |-> "png", width |-> 1200, height |-> 900, readable |-> TRUE]
    /\ ClaimedSize = <<max_width_inches, max_height_inches>>
    /\ output.final = <<Frac(3 * inch, 1), Frac(9 * inch, 4)>>

\* A diagram of 288 x 960 pixels (3 in x 10 in) is shown 10 in high
C22_TallWitness ==
    /\ output # <<>>
    /\ input = [image_type |-> "png", width |-> 288, height |-> 960, readable |-> TRUE]
    /\ output.final = <<Frac(3 * inch, 1), Frac(10 * inch, 1)>>

\* The place of the last space of a TOC entry: the page number follows it
LastSpace(text) == SetMax({i \in 1..Len(text) : text[i] = " "})

\* The page number an entry of the paginated TOC ends with
PageRef(text) == SubSeq(text, LastSpace(text) + 1, Len(text))

\* The page estimate of the k-th entry of the paginated TOC
PageOf(k) == CHOOSE n \in 0..99 : Str(n) = PageRef(PageEntries[k].text)

\* The page estimates of the entries do not decrease
PagesNonDecreasing ==
    \A k \in 1..(Len(PageEntries) - 1) : PageOf(k) <= PageOf(k + 1)

\* C23 as stated: in the paginated TOC the page estimates of the emitted entries are
\* non-decreasing, the first emitted entry carries the base page 3, and the
\* estimate rises by one after every 3 entries, also when main titles that
\* are left out precede or lie between the emitted entries.
C23_PageEstimates ==
    (output # <<>> /\ output.headings # <<>>) =>
        /\ PagesNonDecreasing
        /\ PageEntries # <<>> => PageOf(1) = TocBasePage
        /\ \A k \in 1..Len(PageEntries) :
              PageOf(k) = TocBasePage + ((k - 1) \div TocEntriesPerPage)

\* After a main title that is left out, the third emitted entry is already
\* on page 4
C23_Witness ==
    /\ output # <<>>
    /\ Len(output.headings) = 4
    /\ Generic(output.headings[1])
    /\ Len(PageEntries) = 3
    /\ <<PageOf(1), PageOf(2), PageOf(3)>> = <<3, 3, 4>>

\* The places, among all headings, of the headings the paginated TOC lists
ListedPlaces ==
    SelectSeq([i \in 1..Len(output.headings) |-> i],
              LAMBDA i : ~Generic(output.headings[i]))

\* C23, amended: the page estimates of the emitted entries are
\* non-decreasing and at least the base page 3; the estimate of an entry is
\* 3 plus the number of headings before its heading, the main titles that
\* are left out included, divided by 3 and rounded down.
C23_PageEstimatesCountAllHeadings ==
    (output # <<>> /\ output.headings # <<>>) =>
        /\ PagesNonDecreasing
        /\ Len(PageEntries) = Len(ListedPlaces)
        /\ \A k \in 1..Len(PageEntries) :
              /\ PageOf(k) >= TocBasePage
              /\ PageOf(k) = TocBasePage + ((ListedPlaces[k] - 1) \div TocEntriesPerPage)

\* The heading of the k-th entry of the paginated TOC
EntryHeading(k) == output.headings[ListedPlaces[k]]

\* The title as an entry shows it: 42 characters and '...' for a title of
\* more than 45 characters
DisplayTitle(title) ==
    IF Len(title) > 45 THEN SubSeq(title, 1, 42) \o <<".", ".", ".">> ELSE title

\* The leader dots of the k-th entry: the dots that end before its last space
LeaderDots(k) ==
    LET text == PageEntries[k].text
        last == LastSpace(text) - 1
    IN  last - SetMax({i \in 0..last : i = 0 \/ text[i] # "."})

\* 55 less the display title, the page number and twice the indent level
DotsLeft(k) ==
    55 - (Len(DisplayTitle(EntryHeading(k).title)) + Len(PageRef(PageEntries[k].text))
          + 2 * (EntryHeading(k).level - 1))

\* What an entry of the TOC is made of
EntryWellFormed(k) ==
    /\ PageEntries[k].text =
          Repeat(" ", 2 * (EntryHeading(k).level - 1)) \o DisplayTitle(EntryHeading(k).title)
          \o <<" ">> \o Repeat(".", LeaderDots(k)) \o <<" ">> \o PageRef(PageEntries[k].text)
    /\ LeaderDots(k) = (IF DotsLeft(k) > 3 THEN DotsLeft(k) ELSE 3)
    /\ LeaderDots(k) >= 3
    /\ Len(DisplayTitle(EntryHeading(k).title)) <= 45
    /\ DotsLeft(k) >= 3 =>
          Len(DisplayTitle(EntryHeading(k).title)) + LeaderDots(k)
          + Len(PageRef(PageEntries[k].text)) + 2 * (EntryHeading(k).level - 1) = 55

\* C24: every entry of the paginated TOC has
\* max(3, 55 - (display title + page number + 2 x indent level)) leader dots:
\* at least 3, and display title, dots, page number and 2 x indent level
\* total 55 whenever that leaves 3 dots or more; the display title has at
\* most 45 characters (42 and '...' for a title of more than 45).
C24_LeaderDots ==
    (output # <<>> /\ output.headings # <<>>) =>
        /\ Len(PageEntries) = Len(ListedPlaces)
        /\ \A k \in 1..Len(PageEntries) : EntryWellFormed(k)

\* A TOC with an entry of 3 dots that is longer than 55, an entry of a
\* shortened title that totals 55, and an entry of a short title
C24_Witness ==
    /\ output # <<>>
    /\ Len(PageEntries) = 3
    /\ DotsLeft(1) < 3 /\ LeaderDots(1) = 3
    /\ Len(EntryHeading(2).title) = 46 /\ LeaderDots(2) = 5
    /\ Len(EntryHeading(3).title) = 5 /\ LeaderDots(3) = 47

\* A line of a code fence
FenceLine(line) == StartsWith(line, <<BT, BT, BT>>)

\* The lines between the first and the last line of the text
InnerLines == SubSeq(InputLines, 2, Len(InputLines) - 1)

\* The text is one fenced code block with a non-empty body: an opening fence
\* with an optional language tag, code lines, the closing fence
FencedBlock ==
    /\ Len(InputLines) >= 3
    /\ FenceLine(InputLines[1])
    /\ InputLines[Len(InputLines)] = <<BT, BT, BT>>
    /\ SelectSeq(InnerLines, FenceLine) = <<>>
    /\ SelectSeq(InnerLines, LAMBDA l : Strip(l) # <<>>) # <<>>

\* The Paragraph blocks of the body
BodyParagraphs == BlocksOf(output.body, "Paragraph")

\* C25: a fenced code block with a non-empty body is emitted as exactly one
\* block of the CodeBlock style that holds its code lines, and none of its
\* lines is emitted as a Heading, Bullet, NumberedItem or Paragraph block.
C25_FencedBlockIsOneCodeBlock ==
    (output # <<>> /\ FencedBlock) =>
        /\ Len(BodyParagraphs) = 1
        /\ BodyParagraphs[1].style = "CodeBlock"
        /\ \A k \in 1..Len(InnerLines) :
              Strip(InnerLines[k]) # <<>> => Contains(BodyParagraphs[1].text, InnerLines[k])

\* The block ```python / code / ``` is emitted as three paragraphs, none of
\* the CodeBlock style
C25_Witness ==
    /\ output # <<>>
    /\ input = Join(<<<<BT,BT,BT,"p","y","t","h","o","n">>, <<"c","o","d","e">>, <<BT,BT,BT>>>>, <<NL>>)
    /\ Len(BodyParagraphs) = 3
    /\ BodyParagraphs[2].text = <<"c","o","d","e">>
    /\ \A k \in 1..3 : BodyParagraphs[k].style # "CodeBlock"

\* A bullet line, and a bullet line indented by two spaces
BulletLine(line) == StartsWith(Strip(line), <<"-", " ">>) \/ StartsWith(Strip(line), <<"*", " ">>)

NestedBulletLine(line) ==
    StartsWith(line, <<" ", " ", "-", " ">>) \/ StartsWith(line, <<" ", " ", "*", " ">>)

\* The text of the bullet block of a line: the indented hollow circle for a
\* nested bullet, the bullet for a top-level one
BulletText(line) ==
    IF NestedBulletLine(line)
    THEN <<" ", " ", " ", " ", HOLLOW, " ">> \o SubSeq(line, 5, Len(line))
    ELSE <<BULLET, " ">> \o SubSeq(line, 3, Len(line))

\* The texts of the blocks of the bullet style of the body
BulletTexts ==
    [k \in 1..Len(SelectSeq(BodyParagraphs, LAMBDA b : b.style = "BulletPoint")) |->
        SelectSeq(BodyParagraphs, LAMBDA b : b.style = "BulletPoint")[k].text]

\* C26: a bullet line indented by two spaces is emitted as a bullet block
\* with the nested marker (the indented hollow circle), not the marker of a
\* top-level bullet line, and as a flat block like every other bullet.
C26_NestedBulletMarker ==
    output # <<>> =>
        /\ Len(BulletTexts) = Len(SelectSeq(InputLines, BulletLine))
        /\ \A k \in 1..Len(BulletTexts) :
              BulletTexts[k] = BulletText(SelectSeq(InputLines, BulletLine)[k])

\* The part of C26 about the top-level bullet lines, and that every bullet
\* line gives one flat block
C26_BulletsFlat ==
    output # <<>> =>
        /\ Len(BulletTexts) = Len(SelectSeq(InputLines, BulletLine))
        /\ \A k \in 1..Len(BulletTexts) :
              ~NestedBulletLine(SelectSeq(InputLines, BulletLine)[k]) =>
                  BulletTexts[k] = BulletText(SelectSeq(InputLines, BulletLine)[k])

\* The nested bullet '  - b' is emitted with the marker of a top-level bullet
C26_Witness ==
    /\ output # <<>>
    /\ input = <<"-"," ","a",NL," "," ","-"," ","b">>
    /\ BulletTexts = << <<BULLET, " ", "a">>, <<BULLET, " ", "b">> >>

\* The line that opens a diagram block
DiagramOpen == <<BT,BT,BT,"m","e","r","m","a","i","d">>

\* The place of the first closing fence among lines[i..], 0 when there is none
RECURSIVE ClosingFence(_, _)
ClosingFence(lines, i) ==
    IF i > Len(lines) THEN 0
    ELSE IF lines[i] = <<BT, BT, BT>> THEN i
    ELSE ClosingFence(lines, i + 1)

\* The texts enclosed between a ```mermaid line and its closing fence, in
\* document order, from line i on
RECURSIVE EnclosedFrom(_, _)
EnclosedFrom(lines, i) ==
    IF i > Len(lines) THEN <<>>
    ELSE IF lines[i] = DiagramOpen /\ ClosingFence(lines, i + 1) # 0
    THEN <<Join(SubSeq(lines, i + 1, ClosingFence(lines, i + 1) - 1), <<NL>>)>>
         \o EnclosedFrom(lines, ClosingFence(lines, i + 1) + 1)
    ELSE EnclosedFrom(lines, i + 1)

\* C27: the source of every diagram block handed on to the renderer is the
\* text enclosed between the ```mermaid line and its closing fence,
\* unchanged apart from trimming white space at both ends: no inline markup
\* is rewritten and no table is reformatted in it.
C27_DiagramSourceVerbatim ==
    output # <<>> =>
        /\ Len(output.sources) = Len(EnclosedFrom(InputLines, 1))
        /\ \A k \in 1..Len(output.sources) :
              Strip(output.sources[k]) = Strip(EnclosedFrom(InputLines, 1)[k])

\* The part of C27 that every diagram block is found, in document order,
\* and that a source without markup is handed on unchanged
C27_PlainSourceVerbatim ==
    output # <<>> =>
        /\ Len(output.sources) = Len(EnclosedFrom(InputLines, 1))
        /\ \A k \in 1..Len(output.sources) :
              EnclosedFrom(InputLines, 1)[k] = <<"A","-","-",">","B">> =>
                  output.sources[k] = <<"A","-","-",">","B">>

\* The source A-->|**x**|B`y` is handed on, and shown in the fallback block,
\* as A-->|<b>x</b>|B<code>y</code>
C27_Witness ==
    /\ output # <<>>
    /\ input = <<BT,BT,BT,"m","e","r","m","a","i","d",NL,"A","-","-",">","|","*","*","x","*","*","|","B",BT,"y",BT,NL,BT,BT,BT>>
    /\ output.sources = << <<"A","-","-",">","|","<","b",">","x","<","/","b",">","|","B","<","c","o","d","e",">","y","<","/","c","o","d","e",">">> >>
    /\ Len(BodyParagraphs) = 1
    /\ Contains(BodyParagraphs[1].text, <<"<","b",">","x","<","/","b",">">>)

\* The header row of the table of the texts
TableHeader == <<"|"," ","a"," ","|"," ","b"," ","|">>

\* The literal placeholder tokens of the texts
TableToken == <<"[","T","A","B","L","E","_","0","]">>

DiagramToken == <<"[","M","E","R","M","A","I","D","_","D","I","A","G","R","A","M","_","0","]">>

\* The diagram blocks and the tables of the text, in document order: "D" for
\* each ```mermaid line, "T" for each header row
InputKinds ==
    [k \in 1..Len(SelectSeq(InputLines, LAMBDA l : l \in {DiagramOpen, TableHeader})) |->
        IF SelectSeq(InputLines, LAMBDA l : l \in {DiagramOpen, TableHeader})[k] = DiagramOpen
        THEN "D" ELSE "T"]

\* The fallback block of a diagram
FallbackParagraph(b) ==
    /\ b.type = "Paragraph"
    /\ b.style = "CodeBlock"
    /\ StartsWith(b.text, <<"[","M","e","r","m","a","i","d"," ","D","i","a","g","r","a","m","]">>)

\* The diagram blocks and tables the body emits, in the order of the body
BodyKinds ==
    [k \in 1..Len(SelectSeq(output.body, LAMBDA b : b.type = "Table" \/ FallbackParagraph(b))) |->
        IF SelectSeq(output.body, LAMBDA b : b.type = "Table" \/ FallbackParagraph(b))[k].type = "Table"
        THEN "T" ELSE "D"]

\* The text holds two tables with no blank line between them, which read as
\* one table
TablesRunTogether ==
    \E i \in 1..(Len(InputLines) - 1) :
        StartsWith(InputLines[i], <<"|">>) /\ InputLines[i + 1] = TableHeader

\* A placeholder token is the text of a paragraph of the body
TokenAsText ==
    \E k \in 1..Len(BodyParagraphs) :
        \/ Contains(BodyParagraphs[k].text, <<"[","T","A","B","L","E","_">>)
        \/ Contains(BodyParagraphs[k].text, <<"[","M","E","R","M","A","I","D","_","D","I","A","G","R","A","M","_">>)

\* The text holds a literal placeholder token
TokenInInput == Contains(input, TableToken) \/ Contains(input, DiagramToken)

\* C29: every diagram block and every table of the input is emitted exactly
\* once in the body, as its Image-or-fallback block or its Table block, in
\* document order, with or without blank lines around it and with or without
\* a literal token [TABLE_n] or [MERMAID_DIAGRAM_n] in the input; no
\* placeholder token is emitted as paragraph text.
C29_BlocksEmittedOnce ==
    (output # <<>> /\ ~TablesRunTogether) =>
        /\ BodyKinds = InputKinds
        /\ ~TokenInInput => ~TokenAsText

\* The part of C29 for texts whose blocks are set apart by blank lines and
\* that hold no literal token
C29_SeparatedBlocksEmittedOnce ==
    (output # <<>> /\ ~TokenInInput /\ Split(input, <<NL, NL>>) # <<input>>) =>
        /\ BodyKinds = InputKinds
        /\ ~TokenAsText

\* A table that follows a line of text without a blank line is not emitted:
\* the body shows its placeholder token as a paragraph
C29_Witness ==
    /\ output # <<>>
    /\ input = <<"t","e","x","t",NL>> \o TableHeader \o <<NL,"|","-","-","-","|","-","-","-","|",NL,"|"," ","c"," ","|"," ","d"," ","|">>
    /\ InputKinds = <<"T">>
    /\ BodyKinds = <<>>
    /\ TokenAsText

\* A literal token [TABLE_0] before a table makes the body emit the table
\* twice
C29_TokenWitness ==
    /\ output # <<>>
    /\ input = TableToken \o <<NL, NL>> \o TableHeader \o <<NL,"|","-","-","-","|","-","-","-","|",NL,"|"," ","c"," ","|"," ","d"," ","|">>
    /\ BodyKinds = <<"T", "T">>

\* C28: every call of the renderer ending, resolving one diagram ends, in an
\* image or in failure, after at most three calls of the renderer; and the
\* composition of the body of a document, whatever its diagrams, tables and
\* sections, reaches the end of the section list and returns.
C28_BodyTerminates ==
    /\ [](\A r \in Requests : Started(r) <= 3)
    /\ \A r \in Requests : (pc[r] = "br_start") ~> (pc[r] = "br_return")
    /\ \A r \in Requests : (pc[r] = "body_begin") ~> (pc[r] = "build")

\* The body of a document with two diagrams has returned after three calls
\* of the renderer for each
C28_Witness ==
    \E r \in Requests :
        /\ pc[r] = "build"
        /\ Len(calls[r]) = 2
        /\ Len(calls[r][1].exits) = 3
        /\ Len(calls[r][2].exits) = 3
        /\ sec_k[r] = Len(prep[r].sections) + 1

\* The input has a heading, and every heading is a level-1 generic title
OnlyExcludedTitles ==
    /\ output.headings # <<>>
    /\ \A k \in 1..Len(output.headings) :
           /\ output.headings[k].level = 1
           /\ \E word \in TitleWords : Contains(Lower(output.headings[k].title), word)

\* The paginated TOC page shows a placeholder entry
ShowsPlaceholderEntry ==
    \E k \in 1..Len(output.page) : \E e \in 1..Len(PlaceholderEntries) :
        output.page[k] = Paragraph(PlaceholderEntries[e], "Normal")

\* C30: when the input has a heading and every heading is an excluded
\* level-1 generic title, the paginated TOC page is the 'Table of Contents'
\* heading and its spacer and nothing else; the placeholder entries are
\* shown only when the list of headings is empty.
C30_OnlyHeadingWhenAllExcluded ==
    output # <<>> =>
        /\ OnlyExcludedTitles =>
               /\ Len(output.page) = 2
               /\ output.page[1] = Paragraph(<<"T","a","b","l","e"," ","o","f"," ","C","o","n","t","e","n","t","s">>, "CustomHeading1")
               /\ output.page[2] = Spacer(20)
        /\ ShowsPlaceholderEntry => output.headings = <<>>

\* Two excluded titles: the page has its heading and no entry
C30_Witness ==
    /\ output # <<>>
    /\ Len(output.headings) = 2
    /\ OnlyExcludedTitles
    /\ output.headings[1].title # output.headings[2].title
    /\ Len(output.page) = 2
    /\ ~ShowsPlaceholderEntry

\* A text without headings: the page shows the placeholder entries
C30_PlaceholderWitness ==
    /\ output # <<>>
    /\ input # <<>>
    /\ output.headings = <<>>
    /\ ShowsPlaceholderEntry

====
